---- MODULE Spec2Model ----
(***************************************************************************)
(* Model of the skyforest rasterizer's tile engine: the TileCache          *)
(* (src/cache.rs), the prefetch pool (src/cache_prefetch_async.rs), the    *)
(* access-pattern predictor (src/cache_prefetch.rs) and the tile / pixel / *)
(* batch readers (src/formats/tiff/reader/*.rs).                            *)
(*                                                                         *)
(* Specifications:                                                         *)
(*   SpecCacheSeq  one caller issuing put / get / clear on a TileCache     *)
(*   SpecLru       the caller of SpecCacheSeq with three keys              *)
(*   SpecCache     several threads stepping through put / get / clear on   *)
(*                 clones of one TileCache                                 *)
(*   SpecReader    one TiffReader without prefetch: read_tile,             *)
(*                 read_pixel_value and read_pixels_batch calls            *)
(*   SpecParallel  read_tile and read_tiles_parallel on the reader of       *)
(*                 SpecReader                                              *)
(*   SpecEdge      the calls of SpecReader on a reader opened with          *)
(*                 cache_size 0 or 1 on a whole or a truncated file        *)
(*   Spec          one TiffReader with enable_prefetch: foreground         *)
(*                 read_tile calls, the prefetch worker threads, and the   *)
(*                 drop of the reader                                      *)
(*   SpecLive      the steps of Spec with the scheduler's fairness         *)
(*   SpecPixel     the reader of Spec with read_pixel_data calls           *)
(*   SpecRead      TiffReader::read walking the IFD chain                  *)
(*   SpecPredictor AccessPattern: record and predict_next                  *)
(*   SpecOpen      TiffReader::open_with_options on a file header          *)
(*   SpecTag       TagReader's typed accessors on one IFD entry            *)
(*   SpecGeo       GeoInfo::from_ifd on a GeoKeyDirectory                  *)
(*   SpecLzw       lzw::decompress, one loop iteration of decode a step    *)
(*   SpecPredict   apply_horizontal_predictor, vectorised and scalar       *)
(*   SpecQuery     extract_single_value and process_csv_batch_stream       *)
(*   SpecBuffer    BufferedReader and the bare Cursor under the same calls *)
(*   SpecAddress   calculate_tile_index / calculate_pixel_index            *)
(*   SpecEmpty     reads of an IFD with an empty tile, samples of 1 to 8   *)
(*                 bytes                                                   *)
(***************************************************************************)
EXTENDS Integers, Sequences, FiniteSets, TLC

VARIABLES
    cache_size,   \* the argument of TileCache::new / open_with_options
    max_tiles,    \* TileCache.max_tiles
    cache,        \* TileCache.cache : key -> tile bytes (the DashMap)
    lru,          \* TileCache.lru : queue of keys (the SegQueue)
    thr,          \* SpecCache: each thread's position and locals
    pub,          \* SpecCache: the last put that returned, while no put or clear step followed it
    ops,          \* number of calls issued so far
    byte_order,   \* TiffReader.byte_order: "LE" or "BE", detected at open
    is_big_tiff,  \* TiffReader.is_big_tiff
    use_mmap,     \* open_with_options(use_mmap): TileReader.mmap is Some
    source,       \* the byte source behind the reader: what open and read see of it
    access_pattern, \* TileReader.access_pattern: None or Some(history)
    pool,         \* TileReader.prefetch_pool: "none", "alive" or "dropped"
    next_worker,  \* PrefetchPool.next_worker
    wk,           \* the prefetch workers: thread position and both channels
    fg,           \* the foreground call in progress and the last result
    shadow        \* the same call sequence replayed on a reader without prefetch

cacheVars == <<cache_size, max_tiles, cache, lru>>
threadVars == <<thr, pub>>
fileVars == <<byte_order, is_big_tiff, use_mmap, source>>
readerVars == <<byte_order, is_big_tiff, use_mmap, source, access_pattern, pool, next_worker, wk, fg, shadow>>
vars == <<cache_size, max_tiles, cache, lru, thr, pub, ops,
          byte_order, is_big_tiff, use_mmap, source, access_pattern, pool, next_worker, wk, fg,
          shadow>>

----------------------------------------------------------------------------
(* Bounds of the model *)

\* largest cache_size tried
MaxCacheSize == 2
\* the eviction queue is not allowed to grow beyond this many entries
MaxQueue == 4
\* number of calls issued in one behaviour of SpecCacheSeq
MaxOps == 5
\* number of calls issued in one behaviour of SpecCache
MaxThreadOps == 3
\* threads of SpecCache
NThreads == 2

\* Option<T>: None is the empty tuple, Some(x) the one-element tuple
None == <<>>
Some(x) == <<x>>

Max(a, b) == IF a > b THEN a ELSE b
Min(a, b) == IF a < b THEN a ELSE b

----------------------------------------------------------------------------
(* TileCache, src/cache.rs.  A cache value is the record                   *)
(* [map |-> key -> bytes, lru |-> queue of keys].                           *)

\* TileCache::new: max_tiles.max(1)
TileCacheNew(n) == Max(n, 1)

CacheOf(m, q) == [map |-> m, lru |-> q]

MapRemove(m, k) == [x \in (DOMAIN m) \ {k} |-> m[x]]
MapInsert(m, k, v) == [x \in (DOMAIN m) \cup {k} |-> IF x = k THEN v ELSE m[x]]
EmptyMap == [x \in {} |-> <<>>]

\* TileCache::len
CacheLen(c) == Cardinality(DOMAIN c.map)

\* TileCache::get: a hit pushes the key on the queue and returns the bytes
CacheGet(c, k) ==
    IF k \in DOMAIN c.map
    THEN [val |-> Some(c.map[k]), c |-> [c EXCEPT !.lru = Append(@, k)]]
    ELSE [val |-> None, c |-> c]

\* the loop condition of TileCache::put
PutMustEvict_off_by_one(c, max) == CacheLen(c) > max
PutMustEvict(c, max) == CacheLen(c) >= max

\* an eviction loop that pops the newest queue entry
RECURSIVE CacheEvict_newest(_, _)
CacheEvict_newest(c, max) ==
    IF PutMustEvict(c, max) /\ c.lru # <<>>
    THEN CacheEvict_newest([map |-> MapRemove(c.map, c.lru[Len(c.lru)]),
                            lru |-> SubSeq(c.lru, 1, Len(c.lru) - 1)], max)
    ELSE c

\* the eviction loop of TileCache::put
RECURSIVE CacheEvict(_, _)
CacheEvict(c, max) ==
    IF PutMustEvict(c, max)
    THEN IF c.lru # <<>>
         THEN CacheEvict([map |-> MapRemove(c.map, Head(c.lru)), lru |-> Tail(c.lru)], max)
         ELSE c
    ELSE c

\* TileCache::put: evict, insert, push
CachePut(c, max, k, v) ==
    LET e == CacheEvict(c, max)
    IN  [map |-> MapInsert(e.map, k, v), lru |-> Append(e.lru, k)]

\* TileCache::clear
CacheClear(c) == [map |-> EmptyMap, lru |-> <<>>]

----------------------------------------------------------------------------
(* SpecCacheSeq: one caller, calls issued one at a time                     *)

Threads == 1..NThreads
\* the keys thread t inserts: (0, i * 100 + j) in test_cache_concurrent_access,
\* of which the model keeps j = 0
KeysOf(t) == {<<0, t * 100>>}
CacheKeys == UNION {KeysOf(t) : t \in Threads}
\* tile payloads
CacheData == {<<1>>, <<2>>}

\* the reader's variables in the specifications of the cache alone
ReaderUnused ==
    /\ byte_order = "LE" /\ is_big_tiff = FALSE /\ use_mmap = TRUE /\ source = <<>>
    /\ access_pattern = None /\ pool = "none" /\ next_worker = 0
    /\ wk = <<>> /\ fg = <<>> /\ shadow = <<>>

IdleThread == [pc |-> "idle", key |-> None, data |-> None, old |-> None,
               ret |-> None, last |-> "none", quiet |-> FALSE, exp |-> None, expq |-> None]

InitCache ==
    /\ cache_size \in 0..MaxCacheSize
    /\ max_tiles = TileCacheNew(cache_size)
    /\ cache = EmptyMap
    /\ lru = <<>>
    /\ thr = [t \in Threads |-> IdleThread]
    /\ pub = None
    /\ ops = 0
    /\ ReaderUnused

SeqPut(k, v) ==
    /\ ops < MaxOps
    /\ Len(lru) < MaxQueue
    /\ LET c == CachePut(CacheOf(cache, lru), max_tiles, k, v)
       IN  cache' = c.map /\ lru' = c.lru
    /\ ops' = ops + 1
    /\ UNCHANGED <<cache_size, max_tiles, thr, pub>>
    /\ UNCHANGED readerVars

SeqGet(k) ==
    /\ ops < MaxOps
    /\ Len(lru) < MaxQueue
    /\ LET r == CacheGet(CacheOf(cache, lru), k)
       IN  cache' = r.c.map /\ lru' = r.c.lru
    /\ ops' = ops + 1
    /\ UNCHANGED <<cache_size, max_tiles, thr, pub>>
    /\ UNCHANGED readerVars

SeqClear ==
    /\ ops < MaxOps
    /\ LET c == CacheClear(CacheOf(cache, lru))
       IN  cache' = c.map /\ lru' = c.lru
    /\ ops' = ops + 1
    /\ UNCHANGED <<cache_size, max_tiles, thr, pub>>
    /\ UNCHANGED readerVars

NextCacheSeq ==
    \/ \E k \in CacheKeys, v \in CacheData : SeqPut(k, v)
    \/ \E k \in CacheKeys : SeqGet(k)
    \/ SeqClear

SpecCacheSeq == InitCache /\ [][NextCacheSeq]_vars

\* C3: for a cache created with new(n), after any sequence of put, get and
\* clear calls issued one at a time, len() <= max(n, 1).
C3_CacheBoundSeq ==
    Cardinality(DOMAIN cache) <= (IF cache_size > 1 THEN cache_size ELSE 1)

\* C3 witness: a full cache that has evicted (a stale queue entry remains
\* from a get or a re-put) and holds exactly max(n, 1) tiles.
C3_Witness ==
    /\ ops >= 3
    /\ Cardinality(DOMAIN cache) = (IF cache_size > 1 THEN cache_size ELSE 1)
    /\ Len(lru) > Cardinality(DOMAIN cache)
    /\ \E i \in 1..Len(lru) : lru[i] \notin DOMAIN cache

----------------------------------------------------------------------------
(* SpecCache: threads calling put / get / clear on clones of one TileCache *)
(* (impl Clone shares the map and the queue).  Each access of the DashMap   *)
(* or the SegQueue is one step.                                             *)

\* a thread inside put or clear
Writing(r) == r.pc \in {"put_check", "put_pop", "put_remove", "put_insert", "put_push", "clear_pop"}

\* bookkeeping of a put or clear step of thread u: it ends the span in which a
\* returned put is undisturbed (exp, expq), and the puts of the other threads
\* are no longer free of concurrent writers (quiet)
Disturb(th, u) ==
    [t \in Threads |-> [th[t] EXCEPT !.exp = None, !.expq = None,
                                      !.quiet = IF t = u THEN @ ELSE FALSE]]

TPutStart(t, k, v) ==
    /\ thr[t].pc = "idle"
    /\ ops < MaxThreadOps
    /\ thr' = Disturb([thr EXCEPT ![t] = [IdleThread EXCEPT !.pc = "put_check", !.key = k, !.data = v,
                          !.quiet = \A u \in Threads \ {t} : ~Writing(thr[u])]], t)
    /\ pub' = None
    /\ ops' = ops + 1
    /\ UNCHANGED cacheVars
    /\ UNCHANGED readerVars

\* while self.cache.len() >= self.max_tiles
TPutCheck(t) ==
    /\ thr[t].pc = "put_check"
    /\ thr' = Disturb([thr EXCEPT ![t].pc =
                IF PutMustEvict(CacheOf(cache, lru), max_tiles) THEN "put_pop" ELSE "put_insert"], t)
    /\ pub' = None
    /\ UNCHANGED <<cacheVars, ops>>
    /\ UNCHANGED readerVars

\* if let Some(old_key) = self.lru.pop() ... else break
TPutPop(t) ==
    /\ thr[t].pc = "put_pop"
    /\ IF lru # <<>>
       THEN /\ lru' = Tail(lru)
            /\ thr' = Disturb([thr EXCEPT ![t].pc = "put_remove", ![t].old = Head(lru)], t)
       ELSE /\ lru' = lru
            /\ thr' = Disturb([thr EXCEPT ![t].pc = "put_insert"], t)
    /\ pub' = None
    /\ UNCHANGED <<cache_size, max_tiles, cache, ops>>
    /\ UNCHANGED readerVars

\* self.cache.remove(&old_key)
TPutRemove(t) ==
    /\ thr[t].pc = "put_remove"
    /\ cache' = MapRemove(cache, thr[t].old)
    /\ thr' = Disturb([thr EXCEPT ![t].pc = "put_check", ![t].old = None], t)
    /\ pub' = None
    /\ UNCHANGED <<cache_size, max_tiles, lru, ops>>
    /\ UNCHANGED readerVars

\* the effect of self.cache.insert(key, data_arc) on the map
InsertEffect_keep_existing(m, k, v) == IF k \in DOMAIN m THEN m ELSE MapInsert(m, k, v)
InsertEffect(m, k, v) == MapInsert(m, k, v)

TPutInsert(t) ==
    /\ thr[t].pc = "put_insert"
    /\ cache' = InsertEffect(cache, thr[t].key, thr[t].data)
    /\ thr' = Disturb([thr EXCEPT ![t].pc = "put_push"], t)
    /\ pub' = None
    /\ UNCHANGED <<cache_size, max_tiles, lru, ops>>
    /\ UNCHANGED readerVars

\* self.lru.push(key); put returns
TPutPush(t) ==
    /\ thr[t].pc = "put_push"
    /\ Len(lru) < MaxQueue + NThreads
    /\ lru' = Append(lru, thr[t].key)
    /\ thr' = Disturb([thr EXCEPT ![t].pc = "idle", ![t].last = "put"], t)
    /\ pub' = IF \A u \in Threads \ {t} : ~Writing(thr[u])
              THEN Some([key |-> thr[t].key, data |-> thr[t].data, quiet |-> thr[t].quiet])
              ELSE None
    /\ UNCHANGED <<cache_size, max_tiles, cache, ops>>
    /\ UNCHANGED readerVars

\* get(k) is issued; exp remembers the put that has returned and is undisturbed
TGetStart(t, k) ==
    /\ thr[t].pc = "idle"
    /\ ops < MaxThreadOps
    /\ Len(lru) < MaxQueue
    /\ thr' = [thr EXCEPT ![t] = [IdleThread EXCEPT !.pc = "get_lookup", !.key = k,
                                   !.exp = IF pub # None /\ pub[1].key = k THEN Some(pub[1].data) ELSE None,
                                   !.expq = IF pub # None /\ pub[1].key = k /\ pub[1].quiet
                                            THEN Some(pub[1].data) ELSE None]]
    /\ ops' = ops + 1
    /\ UNCHANGED <<cacheVars, pub>>
    /\ UNCHANGED readerVars

\* if let Some(entry) = self.cache.get(&key)
TGetLookup(t) ==
    /\ thr[t].pc = "get_lookup"
    /\ IF thr[t].key \in DOMAIN cache
       THEN thr' = [thr EXCEPT ![t].pc = "get_push", ![t].ret = Some(cache[thr[t].key])]
       ELSE thr' = [thr EXCEPT ![t].pc = "idle", ![t].ret = None, ![t].last = "get"]
    /\ UNCHANGED <<cacheVars, pub, ops>>
    /\ UNCHANGED readerVars

\* self.lru.push(key); return Some(..)
TGetPush(t) ==
    /\ thr[t].pc = "get_push"
    /\ lru' = Append(lru, thr[t].key)
    /\ thr' = [thr EXCEPT ![t].pc = "idle", ![t].last = "get"]
    /\ UNCHANGED <<cache_size, max_tiles, cache, pub, ops>>
    /\ UNCHANGED readerVars

\* clear(): self.cache.clear()
TClearMap(t) ==
    /\ thr[t].pc = "idle"
    /\ ops < MaxThreadOps
    /\ cache' = EmptyMap
    /\ thr' = Disturb([thr EXCEPT ![t] = [IdleThread EXCEPT !.pc = "clear_pop"]], t)
    /\ pub' = None
    /\ ops' = ops + 1
    /\ UNCHANGED <<cache_size, max_tiles, lru>>
    /\ UNCHANGED readerVars

\* while self.lru.pop().is_some() {}
TClearPop(t) ==
    /\ thr[t].pc = "clear_pop"
    /\ IF lru # <<>>
       THEN /\ lru' = Tail(lru)
            /\ thr' = Disturb(thr, t)
       ELSE /\ lru' = lru
            /\ thr' = Disturb([thr EXCEPT ![t].pc = "idle", ![t].last = "clear"], t)
    /\ pub' = None
    /\ UNCHANGED <<cache_size, max_tiles, cache, ops>>
    /\ UNCHANGED readerVars

NextCache ==
    \/ \E t \in Threads : \E k \in KeysOf(t), v \in CacheData : TPutStart(t, k, v)
    \/ \E t \in Threads : TPutCheck(t)
    \/ \E t \in Threads : TPutPop(t)
    \/ \E t \in Threads : TPutRemove(t)
    \/ \E t \in Threads : TPutInsert(t)
    \/ \E t \in Threads : TPutPush(t)
    \/ \E t \in Threads : \E k \in CacheKeys : TGetStart(t, k)
    \/ \E t \in Threads : TGetLookup(t)
    \/ \E t \in Threads : TGetPush(t)
    \/ \E t \in Threads : TClearMap(t)
    \/ \E t \in Threads : TClearPop(t)

SpecCache == InitCache /\ [][NextCache]_vars

AllFinished == \A t \in Threads : thr[t].pc = "idle"

\* C4: when several threads concurrently put and get on clones of one cache,
\* each inserting its own keys, then once all threads have finished
\* len() <= max_tiles, under every interleaving.
C4_CacheBoundConcurrent ==
    AllFinished => Cardinality(DOMAIN cache) <= max_tiles

\* C9 (as claimed): once put(k, v) has returned, a get(k) issued afterwards
\* on any thread returns v, provided no other put and no clear has run
\* between the return of the put and the get.
C9_Publication ==
    \A t \in Threads :
        (thr[t].pc = "idle" /\ thr[t].last = "get" /\ thr[t].exp # None)
            => thr[t].ret = thr[t].exp

\* C9 (amended): the same, provided no other put and no clear has run from
\* the moment put(k, v) was called until the get returned.
C9_PublicationQuiet ==
    \A t \in Threads :
        (thr[t].pc = "idle" /\ thr[t].last = "get" /\ thr[t].expq # None)
            => thr[t].ret = thr[t].expq

\* C9 witness: a thread other than the one that put k has finished get(k)
\* after that put returned undisturbed, and got the bytes; the put replaced
\* an older value or followed an eviction (the queue holds more than one entry).
C9_Witness ==
    \E t \in Threads :
        /\ thr[t].pc = "idle" /\ thr[t].last = "get" /\ thr[t].expq # None
        /\ thr[t].key \notin KeysOf(t)
        /\ thr[t].ret = thr[t].expq
        /\ Len(lru) >= 3

----------------------------------------------------------------------------
(* The file: a tiled TIFF with two IFDs of the same geometry, uncompressed, *)
(* one byte per sample.  File positions are 0-based, sequences 1-based.     *)

\* TIFF field types LONG and LONG8 (formats/tiff/tags.rs) and their sizes
FieldTypeSize(big) == IF big THEN 8 ELSE 4

\* image and tile dimensions of both IFDs
ImageWidth == 4
ImageHeight == 1
TileWidth == 2
TileHeight == 1
NumIfds == 2

DivCeil(a, b) == (a + b - 1) \div b
TilesAcross == DivCeil(ImageWidth, TileWidth)
TilesPerIfd == TilesAcross * DivCeil(ImageHeight, TileHeight)
TileBytes == TileWidth * TileHeight

Ifds == 0..(NumIfds - 1)
TileIds == 0..(TilesPerIfd - 1)

\* the sample bytes of tile t of IFD i, as stored in the file
TilePixels(i, t) == [p \in 1..TileBytes |-> 16 * (i + 1) + TileBytes * t + (p - 1)]

\* the last tile of the last IFD is stored with byte count 0 (an empty tile)
StoredByteCount(i, t) == IF i = NumIfds - 1 /\ t = TilesPerIfd - 1 THEN 0 ELSE TileBytes

\* values at or above 2^24 are all represented by 2^24: they exceed every
\* file position of the model, which is all the code compares them with
Huge == 16777216

\* u32::from_le_bytes / u64::from_le_bytes
FromLeBytes(bs) ==
    IF \E j \in 4..Len(bs) : bs[j] # 0
    THEN Huge
    ELSE bs[1] + 256 * bs[2] + 65536 * bs[3]

Reverse(bs) == [j \in 1..Len(bs) |-> bs[Len(bs) + 1 - j]]

\* u32::from_be_bytes / u64::from_be_bytes
FromBeBytes(bs) == FromLeBytes(Reverse(bs))

\* the bytes of an unsigned value below 65536 in `size` bytes, as a TIFF
\* writer of byte order bo stores them
ToBytes(v, size, bo) ==
    LET le == [j \in 1..size |-> IF j = 1 THEN v % 256 ELSE IF j = 2 THEN (v \div 256) % 256 ELSE 0]
    IN  IF bo = "LE" THEN le ELSE Reverse(le)

RECURSIVE Concat(_)
Concat(ss) == IF ss = <<>> THEN <<>> ELSE Head(ss) \o Concat(Tail(ss))

\* layout: per IFD the TILE_OFFSETS array, then the TILE_BYTE_COUNTS array;
\* after the arrays of all IFDs the tile data
ArrayBytes(big) == TilesPerIfd * FieldTypeSize(big)
OffsetsArrayAt(big, i) == 2 * i * ArrayBytes(big)
CountsArrayAt(big, i) == (2 * i + 1) * ArrayBytes(big)
DataStart(big) == 2 * NumIfds * ArrayBytes(big)
TileDataAt(big, i, t) == DataStart(big) + (i * TilesPerIfd + t) * TileBytes

FileBytes(bo, big) ==
    Concat([i \in 1..NumIfds |->
              Concat([t \in 1..TilesPerIfd |->
                        ToBytes(TileDataAt(big, i - 1, t - 1), FieldTypeSize(big), bo)])
              \o Concat([t \in 1..TilesPerIfd |->
                        ToBytes(StoredByteCount(i - 1, t - 1), FieldTypeSize(big), bo)])])
    \o Concat([k \in 1..(NumIfds * TilesPerIfd) |->
                 TilePixels((k - 1) \div TilesPerIfd, (k - 1) % TilesPerIfd)])

\* the IFD as TiffReader::read materializes it (the tags the tile engine uses)
IfdOf(big, i) ==
    [number |-> i,
     width |-> ImageWidth, height |-> ImageHeight,
     tile_width |-> TileWidth, tile_height |-> TileHeight,
     offsets_entry |-> [value_offset |-> OffsetsArrayAt(big, i), size |-> FieldTypeSize(big)],
     byte_counts_entry |-> [value_offset |-> CountsArrayAt(big, i), size |-> FieldTypeSize(big)]]

\* Result<T>
Ok(v) == <<"ok", v>>
Err(e) == <<"err", e>>
IsOk(r) == r[1] = "ok"
\* a panic of the running thread (slice index out of range)
Panic == <<"panic", "index out of range">>

\* bytes [start, end) of the file
Slice(f, start, end) == SubSeq(f, start + 1, end)

Zeros(n) == [j \in 1..n |-> 0]

\* ByteOrderHandler::read_u32 / read_u64 after seek(SeekFrom::Start(pos)):
\* read_exact fails at the end of the file
ReaderReadUint(f, bo, pos, size) ==
    IF pos + size > Len(f)
    THEN Err("Io")
    ELSE Ok(IF bo = "LE" THEN FromLeBytes(Slice(f, pos, pos + size))
                         ELSE FromBeBytes(Slice(f, pos, pos + size)))

\* TileReader::read_tile_offset / read_tile_byte_count
ReadTileElement(f, bo, entry, index) ==
    ReaderReadUint(f, bo, entry.value_offset + index * entry.size, entry.size)

\* TileReader::read_compressed_data
ReadCompressedData(f, mmap, offset, byte_count) ==
    IF offset + byte_count > Len(f)
    THEN IF mmap THEN Panic ELSE Err("Io")
    ELSE Ok(Slice(f, offset, offset + byte_count))

\* TileReader::create_empty_tile
CreateEmptyTile(ifd) == Ok(Zeros(ifd.tile_width * ifd.tile_height))

\* TileReader::load_uncached_tile (Compression::None, no predictor)
LoadUncachedTile(f, bo, mmap, ifd, index) ==
    LET offset == ReadTileElement(f, bo, ifd.offsets_entry, index)
        byte_count == ReadTileElement(f, bo, ifd.byte_counts_entry, index)
    IN  IF ~IsOk(offset) THEN offset
        ELSE IF ~IsOk(byte_count) THEN byte_count
        ELSE IF byte_count[2] = 0 THEN CreateEmptyTile(ifd)
        ELSE ReadCompressedData(f, mmap, offset[2], byte_count[2])

\* which bytes TileReader::read_tile_offset_static / read_tile_byte_count_static
\* decode: from_le_bytes, whatever _byte_order says
StaticDecode(bo, bs) == FromLeBytes(bs)

\* TileReader::read_tile_offset_static / read_tile_byte_count_static
ReadTileElementStatic(f, bo, mmap, entry, index) ==
    LET start == entry.value_offset + index * entry.size
    IN  IF ~mmap THEN Err("Unsupported")
        ELSE IF start + entry.size > Len(f) THEN Panic
        ELSE Ok(StaticDecode(bo, Slice(f, start, start + entry.size)))

\* ParallelReader::decompress_tile (Compression::None, no predictor)
DecompressTile(f, mmap, offset, byte_count) ==
    IF ~mmap THEN Err("Unsupported")
    ELSE IF offset + byte_count > Len(f) THEN Err("OutOfBounds")
    ELSE Ok(Slice(f, offset, offset + byte_count))

\* ParallelReader::load_single_tile
LoadSingleTile(f, bo, mmap, ifd, index) ==
    LET offset == ReadTileElementStatic(f, bo, mmap, ifd.offsets_entry, index)
        byte_count == ReadTileElementStatic(f, bo, mmap, ifd.byte_counts_entry, index)
    IN  IF ~IsOk(offset) THEN offset
        ELSE IF ~IsOk(byte_count) THEN byte_count
        ELSE IF byte_count[2] = 0 THEN Ok(Zeros(ifd.tile_width * ifd.tile_height))
        ELSE DecompressTile(f, mmap, offset[2], byte_count[2])

\* validate_pixel_bounds comparing x with the width only
ValidatePixelBounds_width_only(ifd, x, y) ==
    IF x >= ifd.width THEN Err("OutOfBounds") ELSE Ok(TRUE)

\* PixelReader::validate_pixel_bounds
ValidatePixelBounds(ifd, x, y) ==
    IF x >= ifd.width \/ y >= ifd.height THEN Err("OutOfBounds") ELSE Ok(TRUE)

\* calculate_tile_index with tiles_across rounded down
CalculateTileIndex_floor_across(ifd, x, y) ==
    (y \div ifd.tile_height) * (ifd.width \div ifd.tile_width) + (x \div ifd.tile_width)

\* PixelReader::calculate_tile_index
CalculateTileIndex(ifd, x, y) ==
    (y \div ifd.tile_height) * DivCeil(ifd.width, ifd.tile_width) + (x \div ifd.tile_width)

\* PixelReader::calculate_pixel_index
CalculatePixelIndex(ifd, x, y) ==
    (y % ifd.tile_height) * ifd.tile_width + (x % ifd.tile_width)

\* PixelReader::read_u8_from_tile
ReadU8FromTile(tile_data, pixel_index) ==
    IF pixel_index < Len(tile_data) THEN Ok(tile_data[pixel_index + 1]) ELSE Err("OutOfBounds")

----------------------------------------------------------------------------
(* AccessPattern, src/cache_prefetch.rs *)

HISTORY_SIZE == 8
MIN_PATTERN_LENGTH == 3
\* the number of ids detect_sequential and detect_raster_scan predict (1..=16)
PredictCount == 16
\* the side of the neighbourhood of detect_spatial_locality (0..4)
NeighbourSide == 4
\* PrefetchConfig::default().max_prefetch
MaxPrefetch == 8

Last(h) == h[Len(h)]

\* AccessPattern::record
Record(h, tile_index) ==
    IF Len(h) >= HISTORY_SIZE THEN Append(Tail(h), tile_index) ELSE Append(h, tile_index)

\* detect_sequential predicting from the last id itself (0..16 for 1..=16)
DetectSequential_from_last(h) ==
    IF Len(h) < MIN_PATTERN_LENGTH THEN None
    ELSE IF \A j \in 2..Len(h) : h[j] = h[j - 1] + 1
         THEN Some([j \in 1..PredictCount |-> h[Len(h)] + j - 1])
         ELSE None

\* AccessPattern::detect_sequential
DetectSequential(h) ==
    IF Len(h) < MIN_PATTERN_LENGTH THEN None
    ELSE IF \A j \in 2..Len(h) : h[j] = h[j - 1] + 1
         THEN Some([j \in 1..PredictCount |-> Last(h) + j])
         ELSE None

\* AccessPattern::detect_raster_scan
DetectRasterScan(h, tiles_per_row) ==
    IF Len(h) < MIN_PATTERN_LENGTH THEN None
    ELSE LET last == Last(h)
             second_last == h[Len(h) - 1]
         IN  IF ~(last > second_last) THEN None
             ELSE IF last - second_last = 1
                  THEN Some([j \in 1..PredictCount |-> last + j])
             ELSE IF last - second_last = tiles_per_row
                  THEN Some([j \in 1..PredictCount |-> last + j * tiles_per_row])
             ELSE None

\* detect_spatial_locality without the test of the right edge
DetectSpatialLocality_no_edge(h, tiles_per_row) ==
    IF h = <<>> THEN None
    ELSE LET last == h[Len(h)]
             cells == [j \in 2..(NeighbourSide * NeighbourSide) |->
                         last + ((j - 1) \div NeighbourSide) * tiles_per_row
                              + ((j - 1) % NeighbourSide)]
         IN  Some([j \in 1..(NeighbourSide * NeighbourSide - 1) |-> cells[j + 1]])

\* AccessPattern::detect_spatial_locality: dy outer, dx inner
DetectSpatialLocality(h, tiles_per_row) ==
    IF h = <<>> THEN None
    ELSE LET last == Last(h)
             tile_x == last % tiles_per_row
             cells == [j \in 1..(NeighbourSide * NeighbourSide) |->
                         [dx |-> (j - 1) % NeighbourSide, dy |-> (j - 1) \div NeighbourSide]]
             Keep(c) == ~(c.dx = 0 /\ c.dy = 0) /\ tile_x + c.dx < tiles_per_row
             kept == SelectSeq(cells, Keep)
         IN  Some([j \in 1..Len(kept) |-> last + kept[j].dy * tiles_per_row + kept[j].dx])

\* AccessPattern::predict_next
PredictNext(h, tiles_per_row) ==
    IF Len(h) < MIN_PATTERN_LENGTH THEN <<>>
    ELSE IF DetectSequential(h) # None THEN DetectSequential(h)[1]
    ELSE IF DetectRasterScan(h, tiles_per_row) # None THEN DetectRasterScan(h, tiles_per_row)[1]
    ELSE IF DetectSpatialLocality(h, tiles_per_row) # None THEN DetectSpatialLocality(h, tiles_per_row)[1]
    ELSE <<>>

----------------------------------------------------------------------------
(* TileReader / TiffReader on one thread: the parts of read_tile and of      *)
(* read_pixels_batch that touch only the reader's own state                 *)

\* TiffReader.current_ifd_index: set at open, passed to set_current_ifd by
\* every read_tile, and assigned nowhere else
CurrentIfdIndex == 0

\* the cache key read_tile uses for tile_index of the IFD it is given
CacheKey(ifd, tile_index) == <<CurrentIfdIndex, tile_index>>

\* TiffReader::enable_prefetch: tiles_per_row of the IFD
TilesPerRow(ifd) == (ifd.width + ifd.tile_width - 1) \div ifd.tile_width

\* the filter of prefetch_tiles_async: cache.get(..).is_none() over the first
\* max_prefetch predicted ids; every hit pushes its key on the queue
RECURSIVE FilterUncached(_, _, _)
FilterUncached(c, ifd, ids) ==
    IF ids = <<>> THEN [c |-> c, ids |-> <<>>]
    ELSE LET g == CacheGet(c, CacheKey(ifd, Head(ids)))
             rest == FilterUncached(g.c, ifd, Tail(ids))
         IN  [c |-> rest.c,
              ids |-> IF g.val = None THEN <<Head(ids)>> \o rest.ids ELSE rest.ids]

\* TileReader::prefetch_tiles_async up to the request it builds (None: no request)
PrefetchRequest(c, ifd, tile_indices) ==
    IF tile_indices = <<>> THEN [c |-> c, req |-> None]
    ELSE LET max_prefetch == Min(MaxPrefetch, Len(tile_indices))
             f == FilterUncached(c, ifd, SubSeq(tile_indices, 1, max_prefetch))
         IN  [c |-> f.c,
              req |-> IF f.ids = <<>> THEN None
                      ELSE Some([tile_indices |-> f.ids, ifd |-> ifd.number])]

\* TileReader::read_tile after collect_prefetched_tiles: lookup, else load,
\* put, and with an access pattern record, predict and build the prefetch
\* request.  ap is access_pattern: None, or Some of history and tiles_per_row.
ReadTileLookup(c, max, f, bo, mmap, ifd, tile_index, ap) ==
    LET g == CacheGet(c, CacheKey(ifd, tile_index))
        tile_data == LoadUncachedTile(f, bo, mmap, ifd, tile_index)
        c1 == CachePut(g.c, max, CacheKey(ifd, tile_index), tile_data[2])
        history == Record(ap[1].history, tile_index)
        pr == PrefetchRequest(c1, ifd, PredictNext(history, ap[1].tiles_per_row))
    IN  IF g.val # None THEN [c |-> g.c, ret |-> Ok(g.val[1]), ap |-> ap, req |-> None]
        ELSE IF ~IsOk(tile_data) THEN [c |-> g.c, ret |-> tile_data, ap |-> ap, req |-> None]
        ELSE IF ap = None THEN [c |-> c1, ret |-> tile_data, ap |-> ap, req |-> None]
        ELSE [c |-> pr.c, ret |-> tile_data,
              ap |-> Some([ap[1] EXCEPT !.history = history]), req |-> pr.req]

\* TileReader::read_tile of a reader without prefetch (access_pattern and
\* prefetch_pool are None)
ReadTilePlain(c, max, f, bo, mmap, ifd, tile_index) ==
    LET r == ReadTileLookup(c, max, f, bo, mmap, ifd, tile_index, None)
    IN  [c |-> r.c, ret |-> r.ret]

\* the tail of TiffReader::read_pixel_value: read_u8_from_tile at the pixel index
ExtractPixel(ifd, x, y, tile) ==
    IF ~IsOk(tile) THEN tile
    ELSE ReadU8FromTile(tile[2], CalculatePixelIndex(ifd, x, y))

\* TiffReader::read_pixel_value of a reader without prefetch
ReadPixelPlain(c, max, f, bo, mmap, ifd, x, y) ==
    IF ~IsOk(ValidatePixelBounds(ifd, x, y))
    THEN [c |-> c, ret |-> ValidatePixelBounds(ifd, x, y)]
    ELSE LET r == ReadTilePlain(c, max, f, bo, mmap, ifd, CalculateTileIndex(ifd, x, y))
         IN  [c |-> r.c, ret |-> ExtractPixel(ifd, x, y, r.ret)]

\* read_pixel_value for the coordinates one by one, in order
RECURSIVE ReadPixelsOneByOne(_, _, _, _, _, _, _)
ReadPixelsOneByOne(c, max, f, bo, mmap, ifd, coords) ==
    IF coords = <<>> THEN <<>>
    ELSE LET r == ReadPixelPlain(c, max, f, bo, mmap, ifd, Head(coords)[1], Head(coords)[2])
         IN  <<r.ret>> \o ReadPixelsOneByOne(r.c, max, f, bo, mmap, ifd, Tail(coords))

\* the first error of a sequence of results, else Ok of the values
CollectResults(rs) ==
    IF \A j \in 1..Len(rs) : IsOk(rs[j])
    THEN Ok([j \in 1..Len(rs) |-> rs[j][2]])
    ELSE rs[CHOOSE j \in 1..Len(rs) : ~IsOk(rs[j]) /\ \A k \in 1..(j - 1) : IsOk(rs[k])]

\* ParallelReader::read_tiles_parallel: load what is not cached, put it,
\* then collect every requested tile from the cache
RECURSIVE PutAll(_, _, _, _, _)
PutAll(c, max, ifd, ids, datas) ==
    IF ids = <<>> THEN c
    ELSE PutAll(CachePut(c, max, CacheKey(ifd, Head(ids)), Head(datas)), max, ifd, Tail(ids), Tail(datas))

\* Vec<Result<..>> of a rayon par_iter().map().collect(): every element is
\* computed, so a panic of any element is a panic of the call
ParCollect(rs) ==
    IF \E j \in 1..Len(rs) : rs[j] = Panic THEN Panic ELSE CollectResults(rs)

\* the tiles read_pixels_batch loads, through the cache (read_tiles_parallel)
BatchLoadTiles_cached(c, max, f, bo, mmap, ifd, tile_indices) ==
    LET loaded == ParCollect([j \in 1..Len(tile_indices) |->
                                LoadSingleTile(f, bo, mmap, ifd, tile_indices[j])])
    IN  IF IsOk(loaded)
        THEN [c |-> PutAll(c, max, ifd, tile_indices, loaded[2]), tiles |-> loaded]
        ELSE [c |-> c, tiles |-> loaded]

\* the tiles read_pixels_batch loads: ParallelReader::read_tiles_parallel_direct,
\* which is given the mmap and the byte order and no cache
BatchLoadTiles(c, max, f, bo, mmap, ifd, tile_indices) ==
    [c |-> c,
     tiles |-> ParCollect([j \in 1..Len(tile_indices) |->
                             LoadSingleTile(f, bo, mmap, ifd, tile_indices[j])])]

\* TiffReader::read_pixels_batch; tile_indices is the order in which the
\* HashMap yields its keys
ReadPixelsBatch(c, max, f, bo, mmap, ifd, coords, tile_indices) ==
    LET valid == CollectResults([j \in 1..Len(coords) |->
                                   ValidatePixelBounds(ifd, coords[j][1], coords[j][2])])
        tile_of == [j \in 1..Len(coords) |-> CalculateTileIndex(ifd, coords[j][1], coords[j][2])]
        loaded == BatchLoadTiles(c, max, f, bo, mmap, ifd, tile_indices)
        TileData(t) == loaded.tiles[2][CHOOSE j \in 1..Len(tile_indices) : tile_indices[j] = t]
        values == [j \in 1..Len(coords) |->
                     ReadU8FromTile(TileData(tile_of[j]),
                                    CalculatePixelIndex(ifd, coords[j][1], coords[j][2]))]
    IN  IF ~IsOk(valid) THEN [c |-> c, ret |-> valid]
        ELSE IF ~IsOk(loaded.tiles) THEN [c |-> loaded.c, ret |-> loaded.tiles]
        \* the extraction loop stops at its first error; every error it can
        \* meet is the OutOfBounds of read_u8_from_tile
        ELSE [c |-> loaded.c, ret |-> CollectResults(values)]

\* the orders in which a HashMap may yield the keys S
KeyOrders(S) ==
    {o \in [1..Cardinality(S) -> S] : \A a, b \in 1..Cardinality(S) : a # b => o[a] # o[b]}

----------------------------------------------------------------------------
(* SpecReader: a TiffReader opened on the file, prefetch not enabled, one    *)
(* caller issuing read_tile, read_pixel_value and read_pixels_batch.        *)

\* calls of one behaviour of SpecReader
MaxReads == 2
\* length of the coordinate list of read_pixels_batch
MaxBatchLen == 2

ByteOrders == {"LE", "BE"}

\* the four files: little- or big-endian, classic or BigTIFF
FileLeClassic == FileBytes("LE", FALSE)
FileLeBig == FileBytes("LE", TRUE)
FileBeClassic == FileBytes("BE", FALSE)
FileBeBig == FileBytes("BE", TRUE)

\* the file as it was written
WrittenFile ==
    IF byte_order = "LE" THEN (IF is_big_tiff THEN FileLeBig ELSE FileLeClassic)
    ELSE (IF is_big_tiff THEN FileBeBig ELSE FileBeClassic)

\* the opened file: the first source.len bytes of the written file are on
\* disk (all of them unless the file was cut short)
File ==
    IF source.len >= Len(WrittenFile) THEN WrittenFile ELSE SubSeq(WrittenFile, 1, source.len)
Ifd(i) == IfdOf(is_big_tiff, i)

\* x ranges one past the image width
Coords == (0..ImageWidth) \X (0..(ImageHeight - 1))
CoordLists == UNION {[1..n -> Coords] : n \in 1..MaxBatchLen}

\* the foreground caller between calls; op, the arguments and ret are those
\* of the last call
IdleFg ==
    [pc |-> "idle", op |-> "none", ifd |-> 0, tile |-> 0, coords |-> <<>>,
     ret |-> None, expect |-> None, widx |-> 0, collected |-> <<>>,
     snap |-> <<>>, put |-> <<>>, req |-> None, atdrop |-> None]

\* TiffReader::open_with_options
InitReader ==
    /\ byte_order \in ByteOrders
    /\ is_big_tiff \in BOOLEAN
    /\ use_mmap \in BOOLEAN
    /\ source = [len |-> Len(WrittenFile)]
    /\ cache_size \in 1..MaxCacheSize
    /\ max_tiles = TileCacheNew(cache_size)
    /\ cache = EmptyMap
    /\ lru = <<>>
    /\ thr = <<>>
    /\ pub = None
    /\ ops = 0
    /\ access_pattern = None
    /\ pool = "none"
    /\ next_worker = 0
    /\ wk = <<>>
    /\ fg = IdleFg
    /\ shadow = CacheOf(EmptyMap, <<>>)

\* TiffReader::read_tile(ifd, tile_index)
ReadTileCall(i, t) ==
    /\ ops < MaxReads
    /\ LET r == ReadTilePlain(CacheOf(cache, lru), max_tiles, File, byte_order, use_mmap, Ifd(i), t)
       IN  /\ cache' = r.c.map
           /\ lru' = r.c.lru
           /\ fg' = [IdleFg EXCEPT !.op = "read_tile", !.ifd = i, !.tile = t, !.ret = Some(r.ret)]
    /\ ops' = ops + 1
    /\ UNCHANGED <<cache_size, max_tiles, threadVars, fileVars, access_pattern, pool, next_worker, wk, shadow>>

\* TiffReader::read_pixel_value(ifd, x, y)
ReadPixelValueCall(i, x, y) ==
    /\ ops < MaxReads
    /\ LET r == ReadPixelPlain(CacheOf(cache, lru), max_tiles, File, byte_order, use_mmap, Ifd(i), x, y)
       IN  /\ cache' = r.c.map
           /\ lru' = r.c.lru
           /\ fg' = [IdleFg EXCEPT !.op = "read_pixel_value", !.ifd = i,
                                   !.coords = << <<x, y>> >>, !.ret = Some(r.ret)]
    /\ ops' = ops + 1
    /\ UNCHANGED <<cache_size, max_tiles, threadVars, fileVars, access_pattern, pool, next_worker, wk, shadow>>

InBounds(i, coords) ==
    \A j \in 1..Len(coords) : IsOk(ValidatePixelBounds(Ifd(i), coords[j][1], coords[j][2]))

\* TiffReader::read_pixels_batch(ifd, coords).  expect is what read_pixel_value
\* returns for the coordinates one by one from the same reader state.
ReadPixelsBatchCall(i, coords) ==
    /\ ops < MaxReads
    /\ LET tiles == IF InBounds(i, coords)
                    THEN {CalculateTileIndex(Ifd(i), coords[j][1], coords[j][2]) : j \in 1..Len(coords)}
                    ELSE {}
       IN  \E order \in KeyOrders(tiles) :
             LET r == ReadPixelsBatch(CacheOf(cache, lru), max_tiles, File, byte_order, use_mmap,
                                      Ifd(i), coords, order)
             IN  /\ cache' = r.c.map
                 /\ lru' = r.c.lru
                 /\ fg' = [IdleFg EXCEPT
                             !.op = "read_pixels_batch", !.ifd = i, !.coords = coords,
                             !.ret = Some(r.ret),
                             !.expect = Some(ReadPixelsOneByOne(CacheOf(cache, lru), max_tiles, File,
                                                 byte_order, use_mmap, Ifd(i), coords))]
    /\ ops' = ops + 1
    /\ UNCHANGED <<cache_size, max_tiles, threadVars, fileVars, access_pattern, pool, next_worker, wk, shadow>>

NextReader ==
    \/ \E i \in Ifds, t \in TileIds : ReadTileCall(i, t)
    \/ \E i \in Ifds, c \in Coords : ReadPixelValueCall(i, c[1], c[2])
    \/ \E i \in Ifds, coords \in CoordLists : ReadPixelsBatchCall(i, coords)

SpecReader == InitReader /\ [][NextReader]_vars

\* C1: for a list of in-bounds coordinates, read_pixels_batch returns exactly
\* the values read_pixel_value returns for the same coordinates one by one,
\* in the same order, for every byte order, classic or BigTIFF, mmap or not.
C1_BatchEquivalence ==
    (fg.op = "read_pixels_batch" /\ InBounds(fg.ifd, fg.coords))
        => fg.ret[1] = CollectResults(fg.expect[1])

\* C2: read_tile(ifd, t) returns the decoded bytes of tile t of that same IFD,
\* whatever read_tile calls on the IFDs of the file came before.
C2_TileOfSameIfd ==
    fg.op = "read_tile"
        => fg.ret[1] = LoadUncachedTile(File, byte_order, use_mmap, Ifd(fg.ifd), fg.tile)

\* a read_pixels_batch call: the step of ReadPixelsBatchCall
IsBatchStep == ops' = ops + 1 /\ fg'.op = "read_pixels_batch"

\* C10: read_pixels_batch leaves the cached keys, their values and len() as
\* they were before the call, whether it returns values or an error.
C10_BatchLeavesCache ==
    [][IsBatchStep => (cache' = cache /\ Cardinality(DOMAIN cache') = Cardinality(DOMAIN cache))]_vars

\* a batch that returned values on a reader whose cache holds a tile and does
\* not hold a tile the batch asked for
C10_Witness ==
    /\ fg.op = "read_pixels_batch"
    /\ IsOk(fg.ret[1])
    /\ ops >= 2
    /\ cache # EmptyMap
    /\ \E j \in 1..Len(fg.coords) :
         CacheKey(Ifd(fg.ifd), CalculateTileIndex(Ifd(fg.ifd), fg.coords[j][1], fg.coords[j][2]))
             \notin DOMAIN cache

----------------------------------------------------------------------------
(* SpecEdge: the calls of SpecReader on a reader opened at the edges of      *)
(* open_with_options: cache_size 0, and a file that was cut short after it  *)
(* was written (its IFDs are intact, tile arrays or tile data are missing). *)

\* the lengths of the file on disk: whole, cut inside the tile data (the first
\* tile is left), cut inside the TILE_OFFSETS array of the last IFD
FileLens(big) ==
    {Len(FileBytes("LE", big)),
     DataStart(big) + TileBytes,
     OffsetsArrayAt(big, NumIfds - 1) + FieldTypeSize(big)}

\* TiffReader::open_with_options(path, use_mmap, cache_size) on such a file
InitEdge ==
    /\ byte_order = "LE"
    /\ is_big_tiff = FALSE
    /\ use_mmap \in BOOLEAN
    /\ source \in {[len |-> n] : n \in FileLens(FALSE)}
    /\ cache_size \in 0..1
    /\ max_tiles = TileCacheNew(cache_size)
    /\ cache = EmptyMap
    /\ lru = <<>>
    /\ thr = <<>>
    /\ pub = None
    /\ ops = 0
    /\ access_pattern = None
    /\ pool = "none"
    /\ next_worker = 0
    /\ wk = <<>>
    /\ fg = IdleFg
    /\ shadow = CacheOf(EmptyMap, <<>>)

SpecEdge == InitEdge /\ [][NextReader]_vars

\* the batch has a coordinate out of bounds, or a tile it needs does not load
BatchMustFail ==
    \/ ~InBounds(fg.ifd, fg.coords)
    \/ \E j \in 1..Len(fg.coords) :
          ~IsOk(LoadSingleTile(File, byte_order, use_mmap, Ifd(fg.ifd),
                               CalculateTileIndex(Ifd(fg.ifd), fg.coords[j][1], fg.coords[j][2])))

\* C11: a read_pixels_batch with a coordinate out of bounds, or with a needed
\* tile that fails to load, returns an error (and so no values), wherever the
\* failing coordinate is in the list.
C11_BatchErrorAborts ==
    (fg.op = "read_pixels_batch" /\ BatchMustFail) => fg.ret[1][1] = "err"

\* C14: a reader opened with cache_size = 0 never holds a tile in its cache.
C14_ZeroDisablesCache ==
    cache_size = 0 => cache = EmptyMap

----------------------------------------------------------------------------
(* Spec: the reader with prefetch (enable_prefetch), its PrefetchPool of     *)
(* worker threads, foreground read_tile calls, and the drop of the reader.  *)

\* read_tile calls of one behaviour of Spec
MaxCalls == 4
\* capacity of a worker's results channel; bounded(32) in PrefetchWorker::new
ResultCap == 2
\* PrefetchPool::new(4, load_fn) in init_prefetch
NumWorkers == 4

Workers == 1..NumWorkers

\* crossbeam Receiver::recv: a message, or Err once the channel is empty and
\* its senders are gone; until then the caller waits
Recv_never_disconnected(chan, sender_alive) ==
    IF chan # <<>> THEN [kind |-> "msg", msg |-> Head(chan)] ELSE [kind |-> "wait"]
Recv(chan, sender_alive) ==
    IF chan # <<>> THEN [kind |-> "msg", msg |-> Head(chan)]
    ELSE IF ~sender_alive THEN [kind |-> "err"]
    ELSE [kind |-> "wait"]

\* crossbeam Receiver::try_recv: a message, or Err(Empty) / Err(Disconnected)
TryRecv_blocking(chan, sender_alive) == Recv(chan, sender_alive)
TryRecv(chan, sender_alive) ==
    IF chan # <<>> THEN [kind |-> "msg", msg |-> Head(chan)] ELSE [kind |-> "err"]

\* crossbeam bounded Sender::send returns: with room in the channel (Ok), or
\* with the receiver gone (Err); until then the caller waits
SendReturns(chan, receiver_alive) == Len(chan) < ResultCap \/ ~receiver_alive

\* a PrefetchWorker just created: the thread waits in request_rx.recv()
\*   queue: the unbounded request channel   chan: the bounded results channel
\*   tx: request_tx is alive                rx: result_rx is alive
\*   cur, ifd: the rest of request.tile_indices and the IFD of the request
NewWorker ==
    [pc |-> "recv", queue |-> <<>>, chan |-> <<>>, tx |-> TRUE, rx |-> TRUE,
     cur |-> <<>>, ifd |-> 0]

\* load_fn of init_prefetch: ParallelReader::load_single_tile on the mmap
LoadFn(ifd_number, tile_idx) ==
    LoadSingleTile(File, byte_order, use_mmap, Ifd(ifd_number), tile_idx)

\* the worker's for loop up to its next send or panic: `if let Ok(..)` passes
\* over the tiles whose load is an Err
RECURSIVE SkipFailed(_, _)
SkipFailed(ifd_number, tile_indices) ==
    IF tile_indices = <<>> THEN <<>>
    ELSE IF LoadFn(ifd_number, Head(tile_indices))[1] = "err"
         THEN SkipFailed(ifd_number, Tail(tile_indices))
         ELSE tile_indices

\* the worker is in result_tx.send and the channel is full
Blocked(w) ==
    /\ wk[w].pc = "work"
    /\ IsOk(LoadFn(wk[w].ifd, Head(wk[w].cur)))
    /\ Len(wk[w].chan) >= ResultCap
    /\ wk[w].rx

\* TiffReader::enable_prefetch(ifd) -> TileReader::init_prefetch, called on the
\* reader just opened
EnablePrefetch(i) ==
    /\ fg.pc = "idle"
    /\ pool = "none"
    /\ ops = 0
    /\ access_pattern' = Some([history |-> <<>>, tiles_per_row |-> TilesPerRow(Ifd(i))])
    /\ pool' = "on"
    /\ wk' = [w \in Workers |-> NewWorker]
    /\ next_worker' = 0
    /\ UNCHANGED <<cacheVars, threadVars, ops, fileVars, fg, shadow>>

\* read_tile(ifd, tile_index) is called.  snap is what the results channels
\* hold at this moment.
BeginReadTile(i, t) ==
    /\ fg.pc = "idle"
    /\ pool \in {"none", "on"}
    /\ ops < MaxCalls
    /\ ops' = ops + 1
    /\ fg' = [IdleFg EXCEPT
                !.pc = IF pool = "on" THEN "collect" ELSE "lookup",
                !.op = "read_tile", !.ifd = i, !.tile = t, !.widx = 1,
                !.collected = [w \in DOMAIN wk |-> <<>>],
                !.snap = [w \in DOMAIN wk |-> wk[w].chan]]
    /\ UNCHANGED <<cacheVars, threadVars, fileVars, access_pattern, pool, next_worker, wk, shadow>>

\* PrefetchPool::collect_results: one try_recv of drain_results of worker widx
FgTryRecv ==
    /\ fg.pc = "collect"
    /\ LET w == fg.widx
           r == TryRecv(wk[w].chan, wk[w].pc # "exited")
       IN  /\ r.kind # "wait"
           /\ IF r.kind = "msg"
              THEN /\ wk' = [wk EXCEPT ![w].chan = Tail(@)]
                   /\ fg' = [fg EXCEPT !.collected[w] = Append(@, r.msg)]
              ELSE /\ wk' = wk
                   /\ fg' = [fg EXCEPT !.widx = w + 1,
                                       !.pc = IF w + 1 > NumWorkers THEN "put" ELSE "collect"]
    /\ UNCHANGED <<cacheVars, threadVars, ops, fileVars, access_pattern, pool, next_worker, shadow>>

\* all_results of collect_results: the drained results, worker by worker
AllResults(collected) == Concat([w \in 1..Len(collected) |-> collected[w]])

\* the results collect_prefetched_tiles puts into the cache
ResultsToPut_first_only(results) == IF results = <<>> THEN <<>> ELSE <<Head(results)>>
ResultsToPut(results) == results

\* the loop of collect_prefetched_tiles: put under current_ifd_index
RECURSIVE PutResults(_, _, _)
PutResults(c, max, results) ==
    IF results = <<>> THEN c
    ELSE PutResults(CachePut(c, max, <<CurrentIfdIndex, Head(results).tile_index>>,
                             Head(results).tile_data),
                    max, Tail(results))

\* collect_prefetched_tiles after collect_results returned
FgPutResults ==
    /\ fg.pc = "put"
    /\ LET results == ResultsToPut(AllResults(fg.collected))
           c == PutResults(CacheOf(cache, lru), max_tiles, results)
       IN  /\ cache' = c.map
           /\ lru' = c.lru
           /\ fg' = [fg EXCEPT !.pc = "lookup", !.put = results]
    /\ UNCHANGED <<cache_size, max_tiles, threadVars, ops, fileVars, access_pattern, pool,
                   next_worker, wk, shadow>>

\* crossbeam unbounded Sender::send returns at once: Ok, or Err with the
\* receiver gone
SendUnbounded(queue, receiver_alive) ==
    IF ~receiver_alive THEN [kind |-> "err"] ELSE [kind |-> "ok"]

\* the rest of read_tile up to pool.prefetch(request): lookup, load, put,
\* record, predict, filter.  shadow is the cache of a reader without prefetch
\* given the same calls, and expect what its read_tile returns.
FgLookup ==
    /\ fg.pc = "lookup"
    /\ LET r == ReadTileLookup(CacheOf(cache, lru), max_tiles, File, byte_order, use_mmap,
                               Ifd(fg.ifd), fg.tile, access_pattern)
           plain == ReadTilePlain(shadow, max_tiles, File, byte_order, use_mmap, Ifd(fg.ifd), fg.tile)
       IN  /\ cache' = r.c.map
           /\ lru' = r.c.lru
           /\ access_pattern' = r.ap
           /\ shadow' = plain.c
           /\ fg' = [fg EXCEPT !.pc = IF r.req # None THEN "prefetch" ELSE "idle",
                               !.req = r.req,
                               !.ret = Some(r.ret), !.expect = Some(plain.ret)]
    /\ UNCHANGED <<cache_size, max_tiles, threadVars, ops, fileVars, pool, next_worker, wk>>

\* PrefetchPool::prefetch: round-robin by next_worker.fetch_add(1), then
\* `let _ = request_tx.send(request)`; read_tile returns
FgPrefetch ==
    /\ fg.pc = "prefetch"
    /\ LET w == (next_worker % NumWorkers) + 1
           sent == SendUnbounded(wk[w].queue, wk[w].pc # "exited")
       IN  /\ sent.kind # "wait"
           /\ wk' = IF sent.kind = "ok" THEN [wk EXCEPT ![w].queue = Append(@, fg.req[1])] ELSE wk
    /\ next_worker' = next_worker + 1
    /\ fg' = [fg EXCEPT !.pc = "idle", !.req = None]
    /\ UNCHANGED <<cacheVars, threadVars, ops, fileVars, access_pattern, pool, shadow>>

\* the worker thread: `while let Ok(request) = request_rx.recv()`
WorkerRecv(w) ==
    /\ w \in DOMAIN wk
    /\ wk[w].pc = "recv"
    /\ LET r == Recv(wk[w].queue, wk[w].tx)
       IN  /\ r.kind # "wait"
           /\ IF r.kind = "msg"
              THEN LET cur == SkipFailed(r.msg.ifd, r.msg.tile_indices)
                   IN  wk' = [wk EXCEPT ![w].queue = Tail(@), ![w].ifd = r.msg.ifd,
                                        ![w].cur = cur,
                                        ![w].pc = IF cur = <<>> THEN "recv" ELSE "work"]
              ELSE wk' = [wk EXCEPT ![w].pc = "exited"]
    /\ UNCHANGED <<cacheVars, threadVars, ops, fileVars, access_pattern, pool, next_worker, fg, shadow>>

\* the worker thread: the next tile of the request whose load is not an Err.
\* A panic of load_fn ends the thread and drops request_rx and result_tx; a
\* send that returns Err breaks out of the for loop.
WorkerTile(w) ==
    /\ w \in DOMAIN wk
    /\ wk[w].pc = "work"
    /\ LET tile_idx == Head(wk[w].cur)
           tile_data == LoadFn(wk[w].ifd, tile_idx)
           rest == SkipFailed(wk[w].ifd, Tail(wk[w].cur))
       IN  IF tile_data = Panic
           THEN wk' = [wk EXCEPT ![w].pc = "exited", ![w].cur = <<>>, ![w].queue = <<>>]
           ELSE /\ SendReturns(wk[w].chan, wk[w].rx)
                /\ IF ~wk[w].rx
                   THEN wk' = [wk EXCEPT ![w].cur = <<>>, ![w].pc = "recv"]
                   ELSE wk' = [wk EXCEPT
                                 ![w].chan = Append(@, [tile_index |-> tile_idx,
                                                        tile_data |-> tile_data[2]]),
                                 ![w].cur = rest,
                                 ![w].pc = IF rest = <<>> THEN "recv" ELSE "work"]
    /\ UNCHANGED <<cacheVars, threadVars, ops, fileVars, access_pattern, pool, next_worker, fg, shadow>>

\* the reader is dropped between two calls.  atdrop records whether a worker
\* has a queued request and whether a worker is blocked in send at this moment.
DropReader ==
    /\ fg.pc = "idle"
    /\ pool = "on"
    /\ fg' = [fg EXCEPT !.pc = "dropping", !.widx = 1,
                        !.atdrop = Some([queued |-> \E w \in Workers : wk[w].queue # <<>>,
                                         blocked |-> \E w \in Workers : Blocked(w)])]
    /\ UNCHANGED <<cacheVars, threadVars, ops, fileVars, access_pattern, pool, next_worker, wk, shadow>>

\* drop of PrefetchWorker widx: request_tx, then result_rx and with it the
\* results still in the channel; the JoinHandle is dropped without a join
FgDropWorker ==
    /\ fg.pc = "dropping"
    /\ wk' = [wk EXCEPT ![fg.widx].tx = FALSE, ![fg.widx].rx = FALSE, ![fg.widx].chan = <<>>]
    /\ fg' = [fg EXCEPT !.widx = @ + 1,
                        !.pc = IF fg.widx + 1 > NumWorkers THEN "dropped" ELSE "dropping"]
    /\ pool' = IF fg.widx + 1 > NumWorkers THEN "dropped" ELSE pool
    /\ UNCHANGED <<cacheVars, threadVars, ops, fileVars, access_pattern, next_worker, shadow>>

Next ==
    \/ \E i \in Ifds : EnablePrefetch(i)
    \/ \E i \in Ifds, t \in TileIds : BeginReadTile(i, t)
    \/ FgTryRecv
    \/ FgPutResults
    \/ FgLookup
    \/ FgPrefetch
    \/ \E w \in Workers : WorkerRecv(w)
    \/ \E w \in Workers : WorkerTile(w)
    \/ DropReader
    \/ FgDropWorker

Spec == InitReader /\ [][Next]_vars

\* a step of some worker thread
WorkerStep == \E w \in Workers : WorkerRecv(w) \/ WorkerTile(w)

\* the reader opened with the memory map on the little-endian classic file,
\* with a cache of one tile: every miss after the third sends a request and
\* the workers deliver results
InitLive ==
    /\ InitReader
    /\ byte_order = "LE"
    /\ ~is_big_tiff
    /\ use_mmap
    /\ cache_size = 1

\* the scheduler does not leave the worker threads unscheduled for ever while
\* one of them can take a step
SpecLive == InitLive /\ [][Next]_vars /\ WF_vars(WorkerStep)

\* the coordinates of a pixel read: x and y each range one past the image
PixelCoords == (0..ImageWidth) \X (0..ImageHeight)

\* TiffReader::read_pixel_data(ifd, x, y), the head of every read_pixel_<T>:
\* validate_tiled_access (the IFDs are tiled), validate_pixel_bounds, then
\* read_tile of the pixel's tile.  With a coordinate out of bounds the call
\* returns here; else it goes on as read_tile and returns its tile with
\* calculate_pixel_index of the coordinates.
ReadPixelData(i, x, y) ==
    /\ fg.pc = "idle"
    /\ pool \in {"none", "on"}
    /\ ops < MaxCalls
    /\ ops' = ops + 1
    /\ fg' = IF ~IsOk(ValidatePixelBounds(Ifd(i), x, y))
             THEN [IdleFg EXCEPT
                     !.op = "read_pixel_data", !.ifd = i, !.coords = << <<x, y>> >>,
                     !.ret = Some(ValidatePixelBounds(Ifd(i), x, y))]
             ELSE [IdleFg EXCEPT
                     !.pc = IF pool = "on" THEN "collect" ELSE "lookup",
                     !.op = "read_pixel_data", !.ifd = i, !.coords = << <<x, y>> >>,
                     !.tile = CalculateTileIndex(Ifd(i), x, y), !.widx = 1,
                     !.collected = [w \in DOMAIN wk |-> <<>>],
                     !.snap = [w \in DOMAIN wk |-> wk[w].chan]]
    /\ UNCHANGED <<cacheVars, threadVars, fileVars, access_pattern, pool, next_worker, wk, shadow>>

NextPixel ==
    \/ Next
    \/ \E i \in Ifds, c \in PixelCoords : ReadPixelData(i, c[1], c[2])

\* SpecPixel: the reader of Spec with pixel reads among its calls
SpecPixel == InitLive /\ [][NextPixel]_vars

IsPrefix(a, b) == Len(a) <= Len(b) /\ SubSeq(b, 1, Len(a)) = a

\* C5: each read_tile of the reader with prefetch returns what the same call
\* returns on a reader without prefetch given the same sequence of calls,
\* under every scheduling of the workers.
C5_PrefetchTransparent ==
    (fg.pc = "idle" /\ fg.op = "read_tile") => fg.ret = fg.expect

\* C6: when read_tile comes to its cache lookup, every result that was on a
\* results channel when the call began has been drained and put in the cache.
C6_DrainBeforeLookup ==
    (fg.pc = "lookup" /\ pool = "on")
        => /\ \A w \in Workers : IsPrefix(fg.snap[w], fg.collected[w])
           /\ fg.put = AllResults(fg.collected)

\* a call that began with a full results channel, and drained more than the
\* channel held then, has come to its lookup
C6_Witness ==
    /\ fg.pc = "lookup"
    /\ pool = "on"
    /\ \E w \in Workers : Len(fg.snap[w]) = ResultCap /\ Len(fg.collected[w]) > ResultCap

\* C7: once the pool is dropped every worker thread eventually exits.
C7_WorkersExit ==
    (pool = "dropped") ~> (pool = "dropped" /\ \A w \in Workers : wk[w].pc = "exited")

\* all workers have exited after a drop that found a worker with a queued
\* request and a worker blocked in send on its full results channel
C7_Witness ==
    /\ pool = "dropped"
    /\ \A w \in Workers : wk[w].pc = "exited"
    /\ fg.atdrop[1].queued
    /\ fg.atdrop[1].blocked

\* C8: whenever read_tile is in collect_results or in prefetch, its next step
\* can be taken at once, whatever state the workers are in: no try_recv and
\* no send of a request waits for a worker.
C8_ForegroundNeverWaits ==
    /\ (fg.pc = "collect") => ENABLED FgTryRecv
    /\ (fg.pc = "prefetch") => ENABLED FgPrefetch

\* the foreground is at the try_recv of a worker that is blocked in send on
\* its full results channel
C8_Witness ==
    /\ fg.pc = "collect"
    /\ Blocked(fg.widx)
    /\ Len(wk[fg.widx].chan) = ResultCap

\* a read_pixel_data call with x >= W or y >= H
IsOutsidePixelStep ==
    /\ ops' = ops + 1
    /\ fg'.op = "read_pixel_data"
    /\ \/ fg'.coords[1][1] >= Ifd(fg'.ifd).width
       \/ fg'.coords[1][2] >= Ifd(fg'.ifd).height

\* C12: a pixel read with x >= W or y >= H returns OutOfBounds at once: no
\* tile is loaded, no prefetched result is collected, and the cache, its
\* queue and the access-pattern history are as they were before the call.
C12_OutOfBoundsPixel ==
    [][IsOutsidePixelStep =>
         /\ fg'.pc = "idle"
         /\ fg'.ret = Some(Err("OutOfBounds"))
         /\ cache' = cache /\ lru' = lru
         /\ access_pattern' = access_pattern
         /\ wk' = wk]_vars

\* a pixel read with y >= H has returned on a reader with tiles cached, a
\* history of three accesses and a prefetched result waiting in a channel
C12_Witness ==
    /\ fg.op = "read_pixel_data"
    /\ fg.pc = "idle"
    /\ fg.coords[1][2] >= ImageHeight
    /\ fg.ret = Some(Err("OutOfBounds"))
    /\ cache # EmptyMap
    /\ access_pattern # None
    /\ Len(access_pattern[1].history) >= MIN_PATTERN_LENGTH
    /\ \E w \in Workers : wk[w].chan # <<>>

----------------------------------------------------------------------------
(* SpecRead: TiffReader::read walking the IFD chain of the opened source.   *)
(* The source is its chain: len IFDs, IFD j at (abstract) offset j, each    *)
(* pointing to the next, and the next-IFD field of the last one.            *)

\* the limit TiffReader::read compares ifd_number with
MaxIfdNumber == 1000
\* the longest chain
MaxChainLen == 1002

ChainLens == {0, 1, 2} \cup ((MaxChainLen - 3)..MaxChainLen)

\* next-IFD field of the last IFD: 0, the offset of the first IFD, its own
\* offset, or an offset beyond the end of the file
LastNexts == {"end", "first", "self", "beyond"}

Chains ==
    {[len |-> n, last_next |-> b] : n \in ChainLens \ {0}, b \in LastNexts}
        \cup {[len |-> 0, last_next |-> "end"]}

\* TiffReader::read_first_ifd_offset
ReadFirstIfdOffset(ch) == IF ch.len = 0 THEN 0 ELSE 1

\* TiffReader::read_next_ifd_offset at the end of the entries of the IFD at off
ReadNextIfdOffset(ch, off) ==
    IF off < ch.len THEN off + 1
    ELSE IF ch.last_next = "end" THEN 0
    ELSE IF ch.last_next = "first" THEN 1
    ELSE IF ch.last_next = "self" THEN off
    ELSE ch.len + 1

\* TiffReader::read_ifd: read_exact fails beyond the end of the file
ReadIfd(ch, off) == IF off \in 1..ch.len THEN Ok(off) ELSE Err("Io")

IdleRead ==
    [pc |-> "idle", op |-> "none", ifd_number |-> 0, next_ifd_offset |-> 0, ifds |-> 0, ret |-> None]

\* a TiffReader opened on the source; no tile was read
InitRead ==
    /\ source \in Chains
    /\ byte_order = "LE" /\ is_big_tiff = FALSE /\ use_mmap = TRUE
    /\ cache_size = 1
    /\ max_tiles = TileCacheNew(cache_size)
    /\ cache = EmptyMap
    /\ lru = <<>>
    /\ thr = <<>>
    /\ pub = None
    /\ ops = 0
    /\ access_pattern = None
    /\ pool = "none"
    /\ next_worker = 0
    /\ wk = <<>>
    /\ fg = IdleRead
    /\ shadow = <<>>

\* TiffReader::read up to the while loop; ifds is tiff.ifds.len()
ReadStart ==
    /\ fg.pc = "idle"
    /\ fg' = [IdleRead EXCEPT !.pc = "loop", !.op = "read",
                              !.next_ifd_offset = ReadFirstIfdOffset(source)]
    /\ UNCHANGED <<cacheVars, threadVars, ops, fileVars, access_pattern, pool, next_worker, wk, shadow>>

\* one test of the while condition of TiffReader::read and, if it holds, one
\* pass through the loop body
ReadLoop ==
    /\ fg.pc = "loop"
    /\ fg' = IF fg.next_ifd_offset = 0
             THEN [fg EXCEPT !.pc = "done", !.ret = Some(Ok(fg.ifds))]
             ELSE IF fg.ifd_number > MaxIfdNumber
             THEN [fg EXCEPT !.pc = "done", !.ret = Some(Err("InvalidFormat"))]
             ELSE IF ~IsOk(ReadIfd(source, fg.next_ifd_offset))
             THEN [fg EXCEPT !.pc = "done", !.ret = Some(ReadIfd(source, fg.next_ifd_offset))]
             ELSE [fg EXCEPT !.next_ifd_offset = ReadNextIfdOffset(source, fg.next_ifd_offset),
                             !.ifds = fg.ifds + 1,
                             !.ifd_number = fg.ifd_number + 1]
    /\ UNCHANGED <<cacheVars, threadVars, ops, fileVars, access_pattern, pool, next_worker, wk, shadow>>

NextRead == ReadStart \/ ReadLoop

SpecRead == InitRead /\ [][NextRead]_vars

\* the chain of the source has more than 1000 IFDs: it is longer, or it cycles
ChainOverLimit == source.len > MaxIfdNumber \/ source.last_next \in {"first", "self"}

\* C13: read returns InvalidFormat for every chain of more than 1000 IFDs,
\* cyclic chains included, and a Tiff it returns holds at most 1000 IFDs.
C13_IfdChainGuard ==
    fg.pc = "done" =>
        /\ ChainOverLimit => fg.ret = Some(Err("InvalidFormat"))
        /\ IsOk(fg.ret[1]) => fg.ret[1][2] <= MaxIfdNumber

----------------------------------------------------------------------------
(* SpecLru: the caller of SpecCacheSeq with three keys, so that a cache of  *)
(* two tiles can hold one key, evict another and keep a third.              *)

LruKeys == {<<0, 0>>, <<0, 1>>, <<0, 2>>}

NextLru ==
    \/ \E k \in LruKeys : SeqPut(k, <<1>>)
    \/ \E k \in LruKeys : SeqGet(k)
    \/ SeqClear

SpecLru == InitCache /\ [][NextLru]_vars

\* the positions of the oldest and of the newest entry of key k in queue q
FirstPos(q, k) == CHOOSE j \in 1..Len(q) : q[j] = k /\ \A i \in 1..(j - 1) : q[i] # k
LastPos(q, k) == CHOOSE j \in 1..Len(q) : q[j] = k /\ \A i \in (j + 1)..Len(q) : q[i] # k

\* a put that evicts: keys leave the map and the map is not cleared
Evicted == (DOMAIN cache) \ (DOMAIN cache')
IsEvictingPut == Evicted # {} /\ cache' # EmptyMap
\* the keys cached before and after the put, the key put excepted
Kept == ((DOMAIN cache) \cap (DOMAIN cache')) \ {lru'[Len(lru')]}

----------------------------------------------------------------------------
(* SpecEmpty: reads of the last IFD, whose last tile is stored with byte    *)
(* count 0, on files whose samples are 1, 2, 4 or 8 bytes wide.             *)

\* the widths of the typed extractors: read_u8_from_tile and
\* read_bytes_from_tile::<2>, ::<4>, ::<8>
SampleSizes == {1, 2, 4, 8}

\* u16 / u32 / u64 ::from_le_bytes of a sample, saturating at Huge
SampleFromLeBytes(bs) ==
    IF \E j \in 4..Len(bs) : bs[j] # 0
    THEN Huge
    ELSE bs[1] + (IF Len(bs) >= 2 THEN 256 * bs[2] ELSE 0)
               + (IF Len(bs) >= 3 THEN 65536 * bs[3] ELSE 0)

\* PixelReader::read_bytes_from_tile::<N> followed by from_le_bytes
ReadBytesFromTile(tile_data, pixel_index, n) ==
    LET byte_offset == pixel_index * n
    IN  IF byte_offset + n > Len(tile_data) THEN Err("OutOfBounds")
        ELSE Ok(SampleFromLeBytes(SubSeq(tile_data, byte_offset + 1, byte_offset + n)))

\* PixelReader::read_<T>_from_tile for a T of n bytes
ReadTypedFromTile(tile_data, pixel_index, n) ==
    IF n = 1 THEN ReadU8FromTile(tile_data, pixel_index)
    ELSE ReadBytesFromTile(tile_data, pixel_index, n)

LastIfd == NumIfds - 1
EmptyTileIndex == TilesPerIfd - 1

\* open_with_options on a file with samples of bytes_per_sample bytes
InitEmpty ==
    /\ byte_order = "LE"
    /\ is_big_tiff = FALSE
    /\ use_mmap \in BOOLEAN
    /\ source \in {[len |-> Len(FileLeClassic), bytes_per_sample |-> n] : n \in SampleSizes}
    /\ cache_size = 1
    /\ max_tiles = TileCacheNew(cache_size)
    /\ cache = EmptyMap
    /\ lru = <<>>
    /\ thr = <<>>
    /\ pub = None
    /\ ops = 0
    /\ access_pattern = None
    /\ pool = "none"
    /\ next_worker = 0
    /\ wk = <<>>
    /\ fg = IdleFg
    /\ shadow = CacheOf(EmptyMap, <<>>)

\* ParallelReader::load_single_tile(tile_idx, ..), the loader of the batch
\* and of the prefetch workers
LoadSingleTileCall(i, t) ==
    /\ ops < MaxReads
    /\ fg' = [IdleFg EXCEPT !.op = "load_single_tile", !.ifd = i, !.tile = t,
                            !.ret = Some(LoadSingleTile(File, byte_order, use_mmap, Ifd(i), t))]
    /\ ops' = ops + 1
    /\ UNCHANGED <<cacheVars, threadVars, fileVars, access_pattern, pool, next_worker, wk, shadow>>

\* TiffReader::read_pixel_<T>(ifd, x, y) with T of the file's sample size
ReadPixelTypedCall(i, x, y) ==
    /\ ops < MaxReads
    /\ LET valid == ValidatePixelBounds(Ifd(i), x, y)
           r == ReadTilePlain(CacheOf(cache, lru), max_tiles, File, byte_order, use_mmap,
                              Ifd(i), CalculateTileIndex(Ifd(i), x, y))
           value == IF ~IsOk(r.ret) THEN r.ret
                    ELSE ReadTypedFromTile(r.ret[2], CalculatePixelIndex(Ifd(i), x, y),
                                           source.bytes_per_sample)
       IN  IF ~IsOk(valid)
           THEN /\ UNCHANGED <<cache, lru>>
                /\ fg' = [IdleFg EXCEPT !.op = "read_pixel", !.ifd = i,
                                        !.coords = << <<x, y>> >>, !.ret = Some(valid)]
           ELSE /\ cache' = r.c.map
                /\ lru' = r.c.lru
                /\ fg' = [IdleFg EXCEPT !.op = "read_pixel", !.ifd = i,
                                        !.coords = << <<x, y>> >>, !.ret = Some(value)]
    /\ ops' = ops + 1
    /\ UNCHANGED <<cache_size, max_tiles, threadVars, fileVars, access_pattern, pool, next_worker, wk, shadow>>

NextEmpty ==
    \/ \E t \in TileIds : ReadTileCall(LastIfd, t)
    \/ \E t \in TileIds : LoadSingleTileCall(LastIfd, t)
    \/ \E c \in Coords : ReadPixelTypedCall(LastIfd, c[1], c[2])

SpecEmpty == InitEmpty /\ [][NextEmpty]_vars

\* C16: the tile stored with byte count 0 is returned by read_tile and by the
\* batch / prefetch loader as Tw * Th * bytes_per_sample zero bytes, and every
\* in-bounds pixel of it reads as 0 through the extractor of the sample size.
C16_EmptyTileZeros ==
    /\ (fg.op \in {"read_tile", "load_single_tile"} /\ fg.tile = EmptyTileIndex
            /\ IsOk(fg.ret[1]))
          => fg.ret[1][2] = Zeros(TileWidth * TileHeight * source.bytes_per_sample)
    /\ (fg.op = "read_pixel" /\ InBounds(fg.ifd, fg.coords)
            /\ CalculateTileIndex(Ifd(fg.ifd), fg.coords[1][1], fg.coords[1][2]) = EmptyTileIndex)
          => fg.ret[1] = Ok(0)

----------------------------------------------------------------------------
(* SpecAddress: PixelReader::calculate_tile_index and calculate_pixel_index *)
(* on tiled IFDs of every small geometry.  The source is the IFD's          *)
(* dimensions and tile dimensions.                                          *)

\* largest image width and height
MaxImageSide == 5
\* largest tile width and height
MaxTileSide == 3

Geometries ==
    {[width |-> w, height |-> h, tile_width |-> tw, tile_height |-> th] :
        w \in 1..MaxImageSide, h \in 1..MaxImageSide,
        tw \in 1..MaxTileSide, th \in 1..MaxTileSide}

IdleAddress == [op |-> "none", coords |-> <<>>, tile_index |-> 0, pixel_index |-> 0]

InitAddress ==
    /\ source \in Geometries
    /\ byte_order = "LE" /\ is_big_tiff = FALSE /\ use_mmap = TRUE
    /\ cache_size = 1
    /\ max_tiles = TileCacheNew(cache_size)
    /\ cache = EmptyMap
    /\ lru = <<>>
    /\ thr = <<>>
    /\ pub = None
    /\ ops = 0
    /\ access_pattern = None
    /\ pool = "none"
    /\ next_worker = 0
    /\ wk = <<>>
    /\ fg = IdleAddress
    /\ shadow = <<>>

\* calculate_tile_index(ifd, x, y) and calculate_pixel_index(ifd, x, y), as
\* read_pixel_data calls them for a pixel that passed validate_pixel_bounds
LocatePixel(x, y) ==
    /\ IsOk(ValidatePixelBounds(source, x, y))
    /\ fg' = [op |-> "locate", coords |-> <<x, y>>,
              tile_index |-> CalculateTileIndex(source, x, y),
              pixel_index |-> CalculatePixelIndex(source, x, y)]
    /\ UNCHANGED <<cacheVars, threadVars, ops, fileVars, access_pattern, pool, next_worker, wk, shadow>>

NextAddress ==
    \E x \in 0..(MaxImageSide - 1), y \in 0..(MaxImageSide - 1) : LocatePixel(x, y)

SpecAddress == InitAddress /\ [][NextAddress]_vars

\* floor(a / b) and ceil(a / b) by their defining inequalities
FloorDiv(a, b) == CHOOSE q \in 0..a : q * b <= a /\ a < (q + 1) * b
CeilDiv(a, b) == CHOOSE q \in 0..a : q * b >= a /\ (q - 1) * b < a

\* C17: for x < W and y < H the tile index is (y/Th) * ceil(W/Tw) + (x/Tw)
\* and the pixel index (y mod Th) * Tw + (x mod Tw); the pair determines
\* (x, y), the tile index is below ceil(W/Tw) * ceil(H/Th) and the pixel
\* index below Tw * Th.
C17_TileAddressing ==
    fg.op = "locate" =>
        LET x == fg.coords[1]
            y == fg.coords[2]
            W == source.width
            H == source.height
            Tw == source.tile_width
            Th == source.tile_height
        IN  /\ fg.tile_index = FloorDiv(y, Th) * CeilDiv(W, Tw) + FloorDiv(x, Tw)
            /\ fg.pixel_index = (y - FloorDiv(y, Th) * Th) * Tw + (x - FloorDiv(x, Tw) * Tw)
            /\ fg.tile_index < CeilDiv(W, Tw) * CeilDiv(H, Th)
            /\ fg.pixel_index < Tw * Th
            /\ \A x2 \in 0..(W - 1), y2 \in 0..(H - 1) :
                  (/\ CalculateTileIndex(source, x2, y2) = fg.tile_index
                   /\ CalculatePixelIndex(source, x2, y2) = fg.pixel_index)
                      => (x2 = x /\ y2 = y)

\* a pixel of the partial tile at the right edge, in the second row of tiles
C17_Witness ==
    /\ fg.op = "locate"
    /\ source.width % source.tile_width # 0
    /\ fg.coords[1] >= (source.width \div source.tile_width) * source.tile_width
    /\ fg.coords[2] >= source.tile_height
    /\ fg.tile_index = 2 * CeilDiv(source.width, source.tile_width) - 1
    /\ fg.pixel_index > 0

----------------------------------------------------------------------------
(* SpecPredictor: an AccessPattern fed as TileReader::read_tile feeds it:   *)
(* record(tile_index), then predict_next().                                 *)

\* record calls of one behaviour: one more than the history keeps
MaxRecords == 9
\* the tile id of a jump away from the scan
JumpTile == 5
\* AccessPattern::new(tiles_per_row)
TilesPerRowChoices == {1, 2, 4}

\* the tile ids a caller accesses next: the next tile, the tile one row down,
\* the first tile, a tile elsewhere
NextTiles(h, tiles_per_row) ==
    IF h = <<>> THEN {0, JumpTile}
    ELSE {h[Len(h)] + 1, h[Len(h)] + tiles_per_row, 0, JumpTile}

\* AccessPattern::new(tiles_per_row) in TileReader::init_prefetch
InitPredictor ==
    /\ access_pattern \in {Some([history |-> <<>>, tiles_per_row |-> n]) : n \in TilesPerRowChoices}
    /\ byte_order = "LE" /\ is_big_tiff = FALSE /\ use_mmap = TRUE /\ source = <<>>
    /\ cache_size = 1
    /\ max_tiles = TileCacheNew(cache_size)
    /\ cache = EmptyMap
    /\ lru = <<>>
    /\ thr = <<>>
    /\ pub = None
    /\ ops = 0
    /\ pool = "none"
    /\ next_worker = 0
    /\ wk = <<>>
    /\ fg = [op |-> "none", ret |-> <<>>]
    /\ shadow = <<>>

\* pattern.record(tile_index); pattern.predict_next()
RecordAndPredict(t) ==
    /\ ops < MaxRecords
    /\ ops' = ops + 1
    /\ LET history == Record(access_pattern[1].history, t)
       IN  /\ access_pattern' = Some([access_pattern[1] EXCEPT !.history = history])
           /\ fg' = [op |-> "predict_next",
                     ret |-> PredictNext(history, access_pattern[1].tiles_per_row)]
    /\ UNCHANGED <<cacheVars, threadVars, fileVars, pool, next_worker, wk, shadow>>

NextPredictor ==
    \E t \in NextTiles(access_pattern[1].history, access_pattern[1].tiles_per_row) :
        RecordAndPredict(t)

SpecPredictor == InitPredictor /\ [][NextPredictor]_vars

\* the retained history is a run of consecutive ids
IsRun(h) == \A j \in 2..Len(h) : h[j] = h[j - 1] + 1
\* the last stride is 1 or tiles_per_row
IsRasterStride(h, tiles_per_row) ==
    /\ Len(h) >= 2
    /\ h[Len(h)] - h[Len(h) - 1] \in {1, tiles_per_row}

\* C18 as stated: whenever the retained history is a run k, k+1, ..., k+n-1,
\* predict_next returns [last+1, ..., last+16].
C18_SequentialRun ==
    LET h == access_pattern[1].history
    IN  (fg.op = "predict_next" /\ IsRun(h))
            => fg.ret = [j \in 1..16 |-> h[Len(h)] + j]

\* C18 amended: whenever the retained history holds at least 3 ids and is a
\* run k, k+1, ..., k+n-1, predict_next returns [last+1, ..., last+16].
C18_SequentialRunOfThree ==
    LET h == access_pattern[1].history
    IN  (fg.op = "predict_next" /\ Len(h) >= 3 /\ IsRun(h))
            => fg.ret = [j \in 1..16 |-> h[Len(h)] + j]

\* nine consecutive records: the history dropped its oldest id and is a run
\* of eight, and the prediction was made from it
C18_Witness ==
    /\ fg.op = "predict_next"
    /\ ops > HISTORY_SIZE
    /\ Len(access_pattern[1].history) = HISTORY_SIZE
    /\ IsRun(access_pattern[1].history)
    /\ access_pattern[1].history[1] = 1
    /\ Len(fg.ret) = 16

\* the ids the spatial rule names for the last id
Neighbourhood(last, tiles_per_row) ==
    {last + dy * tiles_per_row + dx : dx \in {d \in 0..3 : (last % tiles_per_row) + d < tiles_per_row},
                                      dy \in 0..3} \ {last}

\* the prediction is the neighbourhood: non-empty, each id once, at most 15
IsNeighbourhood(ret, last, tiles_per_row) ==
    /\ ret # <<>>
    /\ {ret[j] : j \in 1..Len(ret)} = Neighbourhood(last, tiles_per_row)
    /\ Len(ret) = Cardinality(Neighbourhood(last, tiles_per_row))
    /\ Len(ret) <= 15
    /\ \A j \in 1..Len(ret) : ret[j] # last

\* C19 as stated: whenever the history matches neither the sequential nor the
\* raster-scan rule, predict_next returns the non-empty neighbourhood list.
C19_SpatialLocality ==
    LET h == access_pattern[1].history
        n == access_pattern[1].tiles_per_row
    IN  (fg.op = "predict_next" /\ ~IsRun(h) /\ ~IsRasterStride(h, n))
            => IsNeighbourhood(fg.ret, h[Len(h)], n)

\* C19 amended: whenever the history holds at least 3 ids and matches neither
\* rule, predict_next returns the non-empty neighbourhood list.
C19_SpatialLocalityOfThree ==
    LET h == access_pattern[1].history
        n == access_pattern[1].tiles_per_row
    IN  (fg.op = "predict_next" /\ Len(h) >= 3 /\ ~IsRun(h) /\ ~IsRasterStride(h, n))
            => IsNeighbourhood(fg.ret, h[Len(h)], n)

\* a spatial prediction from a tile past the first column of four: the ids of
\* the columns past the right edge are left out
C19_Witness ==
    LET h == access_pattern[1].history
        n == access_pattern[1].tiles_per_row
    IN  /\ fg.op = "predict_next"
        /\ Len(h) >= 3
        /\ ~IsRun(h) /\ ~IsRasterStride(h, n)
        /\ n = 4
        /\ h[Len(h)] % n >= 1
        /\ Len(fg.ret) = 4 * (n - (h[Len(h)] % n)) - 1
        /\ Len(fg.ret) < 15

----------------------------------------------------------------------------
(* SpecOpen: TiffReader::open_with_options on a source given by the bytes    *)
(* of its header.                                                           *)

\* b"II" and b"MM"
ByteI == 73
ByteM == 77
\* formats::tiff::TIFF_MAGIC, BIGTIFF_MAGIC
TIFF_MAGIC == 42
BIGTIFF_MAGIC == 43
\* the offset size open_with_options demands of a BigTIFF header
BigTiffOffsetSize == 8

\* the parts a header is put together from: the byte-order mark, the magic
\* number, the BigTIFF offset size and the reserved word, each of them well
\* formed, malformed or cut short
Marks == {<<ByteI, ByteI>>, <<ByteM, ByteM>>, <<ByteI, ByteM>>, <<ByteM, ByteI>>, <<0, 0>>, <<ByteI>>, <<>>}
MagicWords == {<<TIFF_MAGIC, 0>>, <<0, TIFF_MAGIC>>, <<BIGTIFF_MAGIC, 0>>, <<0, BIGTIFF_MAGIC>>, <<0, 0>>, <<TIFF_MAGIC>>, <<>>}
OffsetSizeWords == {<<BigTiffOffsetSize, 0>>, <<0, BigTiffOffsetSize>>, <<4, 0>>, <<>>}
ReservedWords == {<<0, 0>>, <<>>}
Headers ==
    {a \o b \o c \o d : a \in Marks, b \in MagicWords, c \in OffsetSizeWords, d \in ReservedWords}

\* ByteOrder::from_tiff_magic
FromTiffMagic(magic) ==
    IF magic = <<ByteI, ByteI>> THEN Some("LE")
    ELSE IF magic = <<ByteM, ByteM>> THEN Some("BE")
    ELSE None

\* ByteOrder::detect: read_exact of two bytes, then from_tiff_magic; both
\* failures are io::Error values, the second of kind InvalidData
Detect(bytes) ==
    IF Len(bytes) < 2 THEN Err("io::UnexpectedEof")
    ELSE IF FromTiffMagic(SubSeq(bytes, 1, 2)) = None THEN Err("io::InvalidData")
    ELSE Ok(FromTiffMagic(SubSeq(bytes, 1, 2))[1])

\* ByteOrderHandler::read_u16 at byte position pos (from 0) of the source
HandlerReadU16(order, bytes, pos) ==
    IF Len(bytes) < pos + 2 THEN Err("io::UnexpectedEof")
    ELSE IF order = "LE" THEN Ok(bytes[pos + 1] + 256 * bytes[pos + 2])
    ELSE Ok(bytes[pos + 1] * 256 + bytes[pos + 2])

\* impl From<io::Error> for Error: what the ? operator makes of an io::Error
FromIoError(e) == "Io"

\* TiffReader::open_with_options: the Result it returns, Ok carrying the
\* byte_order and is_big_tiff of the reader it builds
OpenResult(src) ==
    IF ~src.exists THEN Err(FromIoError("io::NotFound"))
    ELSE LET bytes == src.bytes
             detected == Detect(bytes)
         IN  IF detected[1] = "err" THEN Err(FromIoError(detected[2]))
             ELSE LET order == detected[2]
                      magic == HandlerReadU16(order, bytes, 2)
                  IN  IF magic[1] = "err" THEN Err(FromIoError(magic[2]))
                      ELSE IF magic[2] = TIFF_MAGIC
                          THEN Ok([byte_order |-> order, is_big_tiff |-> FALSE])
                      ELSE IF magic[2] # BIGTIFF_MAGIC THEN Err("InvalidMagic")
                      ELSE LET offset_size == HandlerReadU16(order, bytes, 4)
                               reserved == HandlerReadU16(order, bytes, 6)
                           IN  IF offset_size[1] = "err" THEN Err(FromIoError(offset_size[2]))
                               ELSE IF offset_size[2] # BigTiffOffsetSize THEN Err("InvalidFormat")
                               ELSE IF reserved[1] = "err" THEN Err(FromIoError(reserved[2]))
                               ELSE Ok([byte_order |-> order, is_big_tiff |-> TRUE])

\* before open there is no reader
InitOpen ==
    /\ source \in {[exists |-> e, bytes |-> h] : e \in BOOLEAN, h \in Headers}
    /\ byte_order = "none" /\ is_big_tiff = FALSE /\ use_mmap = FALSE
    /\ cache_size = 0
    /\ max_tiles = 0
    /\ cache = EmptyMap
    /\ lru = <<>>
    /\ thr = <<>>
    /\ pub = None
    /\ ops = 0
    /\ access_pattern = None
    /\ pool = "none"
    /\ next_worker = 0
    /\ wk = <<>>
    /\ fg = [op |-> "none", ret |-> None]
    /\ shadow = <<>>

\* TiffReader::open_with_options(path, mmap, size): on Ok the reader holds
\* the detected byte order and a TileReader with a new cache
OpenWithOptions(mmap, size) ==
    /\ fg.op = "none"
    /\ LET result == OpenResult(source)
       IN  /\ fg' = [op |-> "open_with_options", ret |-> Some(result)]
           /\ IF result[1] = "ok"
                 THEN /\ byte_order' = result[2].byte_order
                      /\ is_big_tiff' = result[2].is_big_tiff
                      /\ use_mmap' = mmap
                      /\ cache_size' = size
                      /\ max_tiles' = TileCacheNew(size)
                 ELSE UNCHANGED <<byte_order, is_big_tiff, use_mmap, cache_size, max_tiles>>
    /\ UNCHANGED <<source, cache, lru, threadVars, ops, access_pattern, pool, next_worker, wk, shadow>>

NextOpen == \E mmap \in BOOLEAN, size \in 0..1 : OpenWithOptions(mmap, size)

SpecOpen == InitOpen /\ [][NextOpen]_vars

\* C20: opening a source whose first two bytes are neither "II" nor "MM"
\* fails with InvalidByteOrder; a source that opens starting with "II" is read
\* little-endian and one starting with "MM" big-endian.
C20_InvalidByteOrder ==
    (fg.op = "open_with_options" /\ source.exists /\ Len(source.bytes) >= 2)
        => LET mark == SubSeq(source.bytes, 1, 2)
               result == fg.ret[1]
           IN  /\ mark \notin {<<ByteI, ByteI>>, <<ByteM, ByteM>>}
                    => result = Err("InvalidByteOrder")
               /\ (mark = <<ByteI, ByteI>> /\ result[1] = "ok") => byte_order = "LE"
               /\ (mark = <<ByteM, ByteM>> /\ result[1] = "ok") => byte_order = "BE"

----------------------------------------------------------------------------
(* SpecTag: TagReader's typed accessors on one IFD entry.  An integer or    *)
(* float value is kept as the sequence of its little-endian bytes, the      *)
(* inline slot (IFDEntry.value_offset) as the eight little-endian bytes of  *)
(* the u64.                                                                 *)

\* tags::field_types
ASCII == 2
SHORT == 3
LONG == 4
SSHORT == 8
SLONG == 9
FLOAT == 11
DOUBLE == 12
LONG8 == 16
SLONG8 == 17

\* the length of the file under the TagReader
TagFileLen == 16
\* its bytes, all different from one another and from the slots' bytes
TagFile == [j \in 1..TagFileLen |-> 100 + j]

\* IFDEntry::field_type_size
EntryFieldTypeSize(entry) ==
    IF entry.field_type = ASCII THEN 1
    ELSE IF entry.field_type \in {SHORT, SSHORT} THEN 2
    ELSE IF entry.field_type \in {LONG, SLONG, FLOAT} THEN 4
    ELSE IF entry.field_type \in {DOUBLE, LONG8, SLONG8} THEN 8
    ELSE 1

\* IFDEntry::is_inline
IsInline(entry, big) ==
    EntryFieldTypeSize(entry) * entry.count <= (IF big THEN 8 ELSE 4)

\* the field types an accessor is called for
AccessorTypes(accessor) ==
    CASE accessor = "read_u16s" -> {SHORT}
      [] accessor = "read_i16s" -> {SSHORT}
      [] accessor = "read_u32s" -> {LONG}
      [] accessor = "read_i32s" -> {SLONG}
      [] accessor = "read_u64s" -> {LONG8}
      [] accessor = "read_i64s" -> {SLONG8}
      [] accessor = "read_doubles" -> {DOUBLE, FLOAT}
      [] accessor = "read_ascii" -> {ASCII}
Accessors ==
    {"read_u16s", "read_i16s", "read_u32s", "read_i32s", "read_u64s", "read_i64s",
     "read_doubles", "read_ascii"}

\* value_offset of the entries: packed shorts, two floats (1.0, 2.0), mixed
\* sign bits; text for ASCII; a file position for values stored in the file
Slots == {<<1, 0, 2, 0, 3, 0, 4, 0>>, <<0, 0, 128, 63, 0, 0, 0, 64>>, <<255, 255, 254, 255, 1, 0, 0, 128>>}
AsciiSlots == {<<72, 105, 0, 0, 0, 0, 0, 0>>, <<72, 0, 105, 33, 79, 75, 0, 0>>}
FileSlot == <<4, 0, 0, 0, 0, 0, 0, 0>>

\* the entries of a file of the given format: classic files keep a u32 slot
TagEntries(big) ==
    {e \in [field_type : {ASCII, SHORT, LONG, SSHORT, SLONG, FLOAT, DOUBLE, LONG8, SLONG8},
            count : 1..9,
            value_offset : Slots \cup AsciiSlots \cup {FileSlot}] :
        /\ IsInline(e, big) => /\ e.value_offset # FileSlot
                               /\ (e.field_type = ASCII) = (e.value_offset \in AsciiSlots)
                               /\ ~big => SubSeq(e.value_offset, 5, 8) = <<0, 0, 0, 0>>
        /\ ~IsInline(e, big) => /\ e.value_offset = FileSlot
                                /\ EntryFieldTypeSize(e) * (e.count - 1) <= (IF big THEN 8 ELSE 4)}

\* reader.seek(SeekFrom::Start(value_offset)) for a value_offset below 65536
SeekStart(rd, value_offset) ==
    [rd EXCEPT !.pos = value_offset[1] + 256 * value_offset[2]]

\* ByteOrderHandler::read_uN / read_iN / read_fN: read_exact of n bytes at the
\* reader's position, taken in the handler's byte order
HandlerRead(order, rd, n) ==
    IF rd.pos + n > TagFileLen
    THEN [val |-> Err("Io"), rd |-> [pos |-> TagFileLen, reads |-> rd.reads + 1]]
    ELSE LET buf == SubSeq(TagFile, rd.pos + 1, rd.pos + n)
         IN  [val |-> Ok(IF order = "LE" THEN buf ELSE Reverse(buf)),
              rd |-> [pos |-> rd.pos + n, reads |-> rd.reads + 1]]

\* TagReader::read_single_u16 .. read_single_i64, read_single_double: the
\* element at index (from 0)
ReadSingle(accessor, entry, big, order, rd, index) ==
    LET slot == entry.value_offset
        inline == IsInline(entry, big)
    IN  CASE accessor \in {"read_u16s", "read_i16s"} ->
                IF inline THEN [val |-> Ok(SubSeq(slot, 2 * index + 1, 2 * index + 2)), rd |-> rd]
                ELSE HandlerRead(order, rd, 2)
          [] accessor \in {"read_u32s", "read_i32s"} ->
                IF ~inline THEN HandlerRead(order, rd, 4)
                ELSE IF index = 0 THEN [val |-> Ok(SubSeq(slot, 1, 4)), rd |-> rd]
                ELSE [val |-> Ok(SubSeq(slot, 5, 8)), rd |-> rd]
          [] accessor \in {"read_u64s", "read_i64s"} ->
                IF inline /\ index = 0 THEN [val |-> Ok(slot), rd |-> rd]
                ELSE HandlerRead(order, rd, 8)
          [] accessor = "read_doubles" ->
                IF entry.field_type = DOUBLE
                THEN IF inline THEN [val |-> Ok(slot), rd |-> rd]
                     ELSE HandlerRead(order, rd, 8)
                ELSE IF entry.field_type = FLOAT THEN HandlerRead(order, rd, 4)
                ELSE [val |-> Err("InvalidFormat"), rd |-> rd]

\* the loop of read_u16s .. read_doubles: for i in 0..entry.count
RECURSIVE ReadEach(_, _, _, _, _, _, _)
ReadEach(accessor, entry, big, order, rd, index, values) ==
    IF index = entry.count THEN [ret |-> Ok(values), rd |-> rd]
    ELSE LET r == ReadSingle(accessor, entry, big, order, rd, index)
         IN  IF r.val[1] = "err" THEN [ret |-> r.val, rd |-> r.rd]
             ELSE ReadEach(accessor, entry, big, order, r.rd, index + 1, Append(values, r.val[2]))

\* trim_end_matches('\0')
RECURSIVE TrimEndNul(_)
TrimEndNul(bs) ==
    IF bs # <<>> /\ bs[Len(bs)] = 0 THEN TrimEndNul(SubSeq(bs, 1, Len(bs) - 1)) ELSE bs

\* TagReader::read_ascii with read_ascii_bytes
ReadAscii(entry, big, rd) ==
    IF IsInline(entry, big)
    THEN [ret |-> Ok(TrimEndNul(SubSeq(entry.value_offset, 1, entry.count))), rd |-> rd]
    ELSE LET r == HandlerRead("LE", SeekStart(rd, entry.value_offset), entry.count)
         IN  [ret |-> IF r.val[1] = "err" THEN r.val ELSE Ok(TrimEndNul(r.val[2])), rd |-> r.rd]

\* TagReader::read_u16s .. read_doubles: seek_to_tag_data, then the loop
ReadTag(accessor, entry, big, order, rd) ==
    IF accessor = "read_ascii" THEN ReadAscii(entry, big, rd)
    ELSE ReadEach(accessor, entry, big, order,
                  IF IsInline(entry, big) THEN rd ELSE SeekStart(rd, entry.value_offset),
                  0, <<>>)

\* a TagReader over the file, the reader at some position, and one entry
InitTag ==
    /\ byte_order \in ByteOrders
    /\ is_big_tiff \in BOOLEAN
    /\ use_mmap = FALSE
    /\ source \in [pos : {0, 10, TagFileLen}, reads : {0}]
    /\ cache_size = 1
    /\ max_tiles = TileCacheNew(cache_size)
    /\ cache = EmptyMap
    /\ lru = <<>>
    /\ thr = <<>>
    /\ pub = None
    /\ ops = 0
    /\ access_pattern = None
    /\ pool = "none"
    /\ next_worker = 0
    /\ wk = <<>>
    /\ fg = [op |-> "none", entry |-> <<>>, ret |-> None, pos |-> 0]
    /\ shadow = <<>>

\* one call of a typed accessor on an entry of a type it is called for
TagRead(accessor, entry) ==
    /\ fg.op = "none"
    /\ entry.field_type \in AccessorTypes(accessor)
    /\ LET r == ReadTag(accessor, entry, is_big_tiff, byte_order, source)
       IN  /\ fg' = [op |-> accessor, entry |-> entry, ret |-> Some(r.ret), pos |-> source.pos]
           /\ source' = r.rd
    /\ UNCHANGED <<byte_order, is_big_tiff, use_mmap, cacheVars, threadVars, ops,
                   access_pattern, pool, next_worker, wk, shadow>>

NextTag == \E accessor \in Accessors, entry \in TagEntries(is_big_tiff) : TagRead(accessor, entry)

SpecTag == InitTag /\ [][NextTag]_vars

\* the little-endian-packed values of the slot: count values of size bytes
PackedValues(slot, size, count) ==
    [j \in 1..count |-> SubSeq(slot, (j - 1) * size + 1, j * size)]

\* C21: for an entry stored inline, every typed accessor returns the
\* little-endian-packed values of the entry's slot (read_ascii its first
\* count bytes without the trailing NULs) and reads nothing from the file.
C21_InlineValues ==
    (fg.op \in Accessors /\ IsInline(fg.entry, is_big_tiff))
        => /\ fg.ret[1] = Ok(IF fg.op = "read_ascii"
                                THEN TrimEndNul(SubSeq(fg.entry.value_offset, 1, fg.entry.count))
                                ELSE PackedValues(fg.entry.value_offset,
                                                  EntryFieldTypeSize(fg.entry), fg.entry.count))
           /\ source.reads = 0
           /\ source.pos = fg.pos

----------------------------------------------------------------------------
(* SpecGeo: GeoInfo::from_ifd on an IFD whose only GeoTIFF tag is the       *)
(* GeoKeyDirectory, given by the u16 values read_tag_u16s returns for it.   *)

\* geo_keys::GEOGRAPHIC_TYPE, PROJECTED_CS_TYPE
GEOGRAPHIC_TYPE == 2048
PROJECTED_CS_TYPE == 3072
\* a key id from_ifd passes over (GTModelTypeGeoKey)
OtherGeoKey == 1024

\* the largest number of keys a directory holds or announces
MaxGeoKeys == 3

\* the keys of a directory: id and value_offset
GeoKeyChoices == {GEOGRAPHIC_TYPE, PROJECTED_CS_TYPE, OtherGeoKey} \X {4326, 32633}
GeoKeyLists == UNION {[1..n -> GeoKeyChoices] : n \in 0..MaxGeoKeys}

\* the u16 values of a directory: the header with the announced number of
\* keys, then id, location, count, value_offset of each key
RECURSIVE DirectoryValues(_)
DirectoryValues(ks) ==
    IF ks = <<>> THEN <<>>
    ELSE <<ks[1][1], 0, 1, ks[1][2]>> \o DirectoryValues(Tail(ks))
Directories ==
    {<<1, 1, 0, n>> \o DirectoryValues(ks) : n \in 0..MaxGeoKeys, ks \in GeoKeyLists}
        \cup {<<>>, <<1, 1, 0>>}

\* the loop of from_ifd over the keys: for i in 0..num_keys, from epsg_code
RECURSIVE GeoKeyLoop(_, _, _, _)
GeoKeyLoop(keys, num_keys, i, epsg_code) ==
    IF i >= num_keys THEN epsg_code
    ELSE LET offset == 4 + i * 4
         IN  IF offset + 3 < Len(keys)
             THEN GeoKeyLoop(keys, num_keys, i + 1,
                             IF keys[offset + 1] \in {GEOGRAPHIC_TYPE, PROJECTED_CS_TYPE}
                             THEN Some(keys[offset + 4]) ELSE epsg_code)
             ELSE GeoKeyLoop(keys, num_keys, i + 1, epsg_code)

\* GeoInfo::from_ifd
FromIfd(src) ==
    IF ~src.has_directory THEN Ok(None)
    ELSE Ok(Some([pixel_scale |-> None, tiepoints |-> <<>>, transform |-> None,
                  epsg_code |-> IF Len(src.keys) >= 4
                                THEN GeoKeyLoop(src.keys, src.keys[4], 0, None)
                                ELSE None,
                  crs_name |-> None]))

InitGeo ==
    /\ source \in [has_directory : BOOLEAN, keys : Directories]
    /\ byte_order = "LE" /\ is_big_tiff = FALSE /\ use_mmap = FALSE
    /\ cache_size = 1
    /\ max_tiles = TileCacheNew(cache_size)
    /\ cache = EmptyMap
    /\ lru = <<>>
    /\ thr = <<>>
    /\ pub = None
    /\ ops = 0
    /\ access_pattern = None
    /\ pool = "none"
    /\ next_worker = 0
    /\ wk = <<>>
    /\ fg = [op |-> "none", ret |-> None]
    /\ shadow = <<>>

\* one call of GeoInfo::from_ifd
FromIfdCall ==
    /\ fg.op = "none"
    /\ fg' = [op |-> "from_ifd", ret |-> Some(FromIfd(source))]
    /\ UNCHANGED <<fileVars, cacheVars, threadVars, ops, access_pattern, pool, next_worker, wk, shadow>>

NextGeo == FromIfdCall

SpecGeo == InitGeo /\ [][NextGeo]_vars

\* the positions (from 1) of the keys the loop visits whose id is 2048 or 3072
EpsgKeyPositions(keys) ==
    {i \in 1..keys[4] : /\ 4 * i + 4 <= Len(keys)
                        /\ keys[4 * i + 1] \in {GEOGRAPHIC_TYPE, PROJECTED_CS_TYPE}}

\* C22: from_ifd sets epsg_code to the value_offset of the first GeoKey of
\* the directory whose id is 2048 or 3072; later such keys do not change it.
C22_FirstEpsgKey ==
    (fg.op = "from_ifd" /\ source.has_directory /\ Len(source.keys) >= 4
        /\ EpsgKeyPositions(source.keys) # {})
        => LET first == CHOOSE i \in EpsgKeyPositions(source.keys) :
                            \A j \in EpsgKeyPositions(source.keys) : i <= j
           IN  fg.ret[1][2][1].epsg_code = Some(source.keys[4 * first + 4])

----------------------------------------------------------------------------
(* SpecLzw: compression::lzw::decompress, one iteration of the loop of      *)
(* LzwDecoder::decode at a time.  The dictionary is kept as the entries     *)
(* pushed after the 256 single-byte ones.                                   *)

\* the entries LzwDecoder::new pushes, its first next_code, the clear and the
\* end-of-information code, the code sizes and the size of a full dictionary
SingleByteEntries == 256
CLEAR_CODE == 256
EOI_CODE == 257
FirstNextCode == 258
InitialCodeSize == 9
MaxCodeSize == 12
DictionaryLimit == 4096

\* the codes of one input
MaxCodes == 4
\* two literal bytes, the two control codes, and the first codes a decoder
\* assigns
LzwCodes == {65, 66, CLEAR_CODE, EOI_CODE, 258, 259, 260}
CodeLists == UNION {[1..n -> LzwCodes] : n \in 0..MaxCodes}

\* the bytes of a list of 9-bit codes in the bit order BitReader reads them
RECURSIVE CodeBits(_)
CodeBits(cs) ==
    IF cs = <<>> THEN <<>>
    ELSE [j \in 1..InitialCodeSize |-> (cs[1] \div (2 ^ (j - 1))) % 2] \o CodeBits(Tail(cs))
BitAt(bits, j) == IF j <= Len(bits) THEN bits[j] ELSE 0
PackCodes(cs) ==
    LET bits == CodeBits(cs)
    IN  [k \in 1..((Len(bits) + 7) \div 8) |->
            BitAt(bits, 8 * k - 7) + 2 * BitAt(bits, 8 * k - 6) + 4 * BitAt(bits, 8 * k - 5)
            + 8 * BitAt(bits, 8 * k - 4) + 16 * BitAt(bits, 8 * k - 3) + 32 * BitAt(bits, 8 * k - 2)
            + 64 * BitAt(bits, 8 * k - 1) + 128 * BitAt(bits, 8 * k)]

\* BitReader::read_bits: the while loop, from bits_read and result
RECURSIVE ReadBitsLoop(_, _, _, _, _, _)
ReadBitsLoop(data, byte_index, bit_offset, count, bits_read, result) ==
    IF bits_read >= count
    THEN [code |-> Some(result), byte_index |-> byte_index, bit_offset |-> bit_offset]
    ELSE IF byte_index >= Len(data)
    THEN [code |-> None, byte_index |-> byte_index, bit_offset |-> bit_offset]
    ELSE LET available_bits == 8 - bit_offset
             needed_bits == count - bits_read
             bits_to_read == Min(available_bits, needed_bits)
             bits == (data[byte_index + 1] \div (2 ^ bit_offset)) % (2 ^ bits_to_read)
             offset == bit_offset + bits_to_read
         IN  ReadBitsLoop(data,
                          IF offset >= 8 THEN byte_index + 1 ELSE byte_index,
                          IF offset >= 8 THEN 0 ELSE offset,
                          count, bits_read + bits_to_read,
                          result + bits * (2 ^ bits_read))

\* BitReader::read_bits
ReadBits(data, byte_index, bit_offset, count) ==
    IF count > 16 \/ count = 0
    THEN [code |-> None, byte_index |-> byte_index, bit_offset |-> bit_offset]
    ELSE ReadBitsLoop(data, byte_index, bit_offset, count, 0, 0)

\* self.dictionary.len() and self.dictionary[index]
DictionaryLen(dictionary) == SingleByteEntries + Len(dictionary)
DictionaryAt(dictionary, index) ==
    IF index < SingleByteEntries THEN <<index>> ELSE dictionary[index - SingleByteEntries + 1]

\* LzwDecoder::get_entry; an index past the end of the dictionary panics
GetEntry(dec, code) ==
    IF code < DictionaryLen(dec.dictionary) THEN Ok(DictionaryAt(dec.dictionary, code))
    ELSE IF code = dec.next_code
    THEN IF dec.previous_code # None
         THEN IF dec.previous_code[1] < DictionaryLen(dec.dictionary)
              THEN LET entry == DictionaryAt(dec.dictionary, dec.previous_code[1])
                   IN  Ok(Append(entry, entry[1]))
              ELSE Panic
         ELSE Err("InvalidFormat")
    ELSE Err("InvalidFormat")

\* LzwDecoder::add_entry takes self.dictionary[previous_code] past the end of
\* the dictionary and panics
AddEntryPanics(dec, previous_code) ==
    /\ dec.next_code < DictionaryLimit
    /\ previous_code >= DictionaryLen(dec.dictionary)

\* LzwDecoder::add_entry: the decoder after it, where it does not panic
AddEntry(dec, previous_code, first_byte) ==
    IF dec.next_code < DictionaryLimit
    THEN [dec EXCEPT !.dictionary = Append(@, Append(DictionaryAt(dec.dictionary, previous_code),
                                                    first_byte)),
                     !.next_code = @ + 1]
    ELSE dec

\* LzwDecoder::new and the locals of decode before its loop
NewDecoder ==
    [pc |-> "loop", dictionary |-> <<>>, next_code |-> FirstNextCode,
     code_size |-> InitialCodeSize, previous_code |-> None, output |-> <<>>,
     byte_index |-> 0, bit_offset |-> 0, last |-> None, ret |-> None]

\* decompress(data) entered, data the packed codes of a code list
InitLzw ==
    /\ source \in {[codes |-> cs, data |-> PackCodes(cs)] : cs \in CodeLists}
    /\ fg = NewDecoder
    /\ shadow = <<>>
    /\ byte_order = "LE" /\ is_big_tiff = FALSE /\ use_mmap = FALSE
    /\ cache_size = 1
    /\ max_tiles = TileCacheNew(cache_size)
    /\ cache = EmptyMap
    /\ lru = <<>>
    /\ thr = <<>>
    /\ pub = None
    /\ ops = 0
    /\ access_pattern = None
    /\ pool = "none"
    /\ next_worker = 0
    /\ wk = <<>>

\* the end of decode: the result, or the panic that unwinds it
Finish(dec, result) == [dec EXCEPT !.pc = "done", !.ret = Some(result)]

\* one iteration of while let Some(code) = reader.read_bits(code_size); shadow
\* keeps the code and the entry of every add_entry since the last reset
DecodeStep ==
    /\ fg.pc = "loop"
    /\ LET r == ReadBits(source.data, fg.byte_index, fg.bit_offset, fg.code_size)
           dec == [fg EXCEPT !.byte_index = r.byte_index, !.bit_offset = r.bit_offset,
                             !.last = None]
       IN  IF r.code = None \/ r.code = Some(EOI_CODE)
           THEN fg' = Finish(dec, Ok(fg.output)) /\ shadow' = shadow
           ELSE IF r.code = Some(CLEAR_CODE)
           THEN /\ fg' = [dec EXCEPT !.dictionary = <<>>, !.next_code = FirstNextCode,
                                     !.code_size = InitialCodeSize, !.previous_code = None]
                /\ shadow' = <<>>
           ELSE LET code == r.code[1]
                    entry == GetEntry(dec, code)
                    seen == [dec EXCEPT !.last = Some([code |-> code, entry |-> entry])]
                IN  IF entry[1] # "ok"
                    THEN fg' = Finish(seen, entry) /\ shadow' = shadow
                    ELSE LET emitted == [seen EXCEPT !.output = @ \o entry[2]]
                             added == IF fg.previous_code = None THEN emitted
                                      ELSE AddEntry(emitted, fg.previous_code[1], entry[2][1])
                         IN  IF fg.previous_code # None /\ AddEntryPanics(emitted, fg.previous_code[1])
                             THEN fg' = Finish(emitted, Panic) /\ shadow' = shadow
                             ELSE /\ fg' = [added EXCEPT
                                               !.code_size =
                                                   IF /\ fg.previous_code # None
                                                      /\ added.next_code = 2 ^ @
                                                      /\ @ < MaxCodeSize
                                                   THEN @ + 1 ELSE @,
                                               !.previous_code = Some(code)]
                                  /\ shadow' = IF added.next_code # fg.next_code
                                               THEN Append(shadow,
                                                           [code |-> fg.next_code,
                                                            entry |-> added.dictionary[Len(added.dictionary)]])
                                               ELSE shadow
    /\ UNCHANGED <<fileVars, cacheVars, threadVars, ops, access_pattern, pool, next_worker, wk>>

NextLzw == DecodeStep

SpecLzw == InitLzw /\ [][NextLzw]_vars

\* C23: the decoder starts with 256 single-byte entries and assigns codes from
\* 258 upward; the entry added when next_code = c is prev_entry +
\* first_byte_of(current_entry), and a later code c in the stream (before the
\* next clear code) decodes to exactly that entry.
C23_DictionaryCodes ==
    /\ \A j \in 1..Len(shadow) : shadow[j].code = FirstNextCode + j - 1
    /\ fg.next_code = FirstNextCode + Len(shadow)
    /\ (fg.last # None)
        => \A j \in 1..Len(shadow) :
              shadow[j].code = fg.last[1].code => fg.last[1].entry = Ok(shadow[j].entry)

\* C27: decompress returns Ok(bytes) or Err(InvalidFormat) and never takes a
\* dictionary index at or past dictionary.len(): decode does not panic.
C27_DecodeTotal ==
    fg.pc = "done" => \/ fg.ret[1][1] = "ok"
                      \/ fg.ret[1] = Err("InvalidFormat")

----------------------------------------------------------------------------
(* SpecPredict: apply_horizontal_predictor on a buffer of width * height    *)
(* bytes, in its vectorised (x86_64, aarch64) and its scalar form.          *)

\* the bytes one vector store covers
BlockLen == 16

\* rows of up to MaxSmallWidth bytes take the scalar tail only; WideWidths
\* take one or two vector blocks, with and without a tail
MaxSmallWidth == 3
MaxRows == 2
WideWidths == {17, 18, 33}
\* buffers of up to MaxFullBytes bytes are drawn byte by byte from ByteChoices,
\* longer ones from the family (a * j + b * j * j + c) mod 256
MaxFullBytes == 6
ByteChoices == {0, 1, 255}
Buffers(n) ==
    IF n <= MaxFullBytes THEN [1..n -> ByteChoices]
    ELSE {[j \in 1..n |-> (a * j + b * j * j + c) % 256] : a \in {1, 7, 255}, b \in {0, 3}, c \in {0, 200}}

\* u8::wrapping_add
WrappingAdd(a, b) == (a + b) % 256

\* the scalar form: for i in (start + 1)..end, positions from 0
RECURSIVE ScalarRow(_, _, _)
ScalarRow(data, i, end) ==
    IF i >= end THEN data
    ELSE ScalarRow([data EXCEPT ![i + 1] = WrappingAdd(data[i + 1], data[i])], i + 1, end)

\* apply_horizontal_predictor (scalar fallback): for row in 0..height
RECURSIVE ScalarRows(_, _, _, _)
ScalarRows(data, width, height, row) ==
    IF row >= height THEN data
    ELSE LET start == row * width
             end == Min(start + width, Len(data))
         IN  ScalarRows(ScalarRow(data, start + 1, end), width, height, row + 1)
ApplyHorizontalPredictorScalar(data, width, height) == ScalarRows(data, width, height, 0)

\* the predictor run over the whole buffer as one row
ApplyHorizontalPredictor_one_row(data, width, height) ==
    ApplyHorizontalPredictorScalar(data, width * height, IF height = 0 THEN 0 ELSE 1)

\* the block of 16: result[j] = row_data[i + j].wrapping_add(prev); prev = result[j]
RECURSIVE BlockResult(_, _, _, _, _)
BlockResult(row_data, i, j, prev, result) ==
    IF j >= BlockLen THEN result
    ELSE LET val == WrappingAdd(row_data[i + j + 1], prev)
         IN  BlockResult(row_data, i, j + 1, val, Append(result, val))

\* the tail: while i < row_data.len()
RECURSIVE VectorTail(_, _, _)
VectorTail(row_data, i, prev) ==
    IF i >= Len(row_data) THEN row_data
    ELSE LET val == WrappingAdd(row_data[i + 1], prev)
         IN  VectorTail([row_data EXCEPT ![i + 1] = val], i + 1, val)

\* while i + 16 <= row_data.len(): compute the block, store it, then the tail
RECURSIVE VectorBlocks(_, _, _)
VectorBlocks(row_data, i, prev) ==
    IF i + BlockLen <= Len(row_data)
    THEN LET result == BlockResult(row_data, i, 0, prev, <<>>)
         IN  VectorBlocks([k \in 1..Len(row_data) |->
                              IF k > i /\ k <= i + BlockLen THEN result[k - i] ELSE row_data[k]],
                          i + BlockLen, result[BlockLen])
    ELSE VectorTail(row_data, i, prev)

\* apply_horizontal_predictor (x86_64 / aarch64): for row in 0..height
RECURSIVE VectorRows(_, _, _, _)
VectorRows(data, width, height, row) ==
    IF row >= height THEN data
    ELSE LET start == row * width
             end == Min(start + width, Len(data))
             row_data == SubSeq(data, start + 1, end)
         IN  IF row_data = <<>> THEN VectorRows(data, width, height, row + 1)
             ELSE VectorRows(SubSeq(data, 1, start) \o VectorBlocks(row_data, 1, row_data[1])
                                 \o SubSeq(data, end + 1, Len(data)),
                             width, height, row + 1)
ApplyHorizontalPredictor(data, width, height) == VectorRows(data, width, height, 0)

\* the row-wise wrapping difference of x: the first byte of a row as it is,
\* every other byte minus its left neighbour
RowDiff(x, width) ==
    [k \in 1..Len(x) |-> IF (k - 1) % width = 0 THEN x[k] ELSE (x[k] - x[k - 1] + 256) % 256]

\* a tile of width * height bytes x, its difference handed to the predictor
InitPredict ==
    /\ source \in UNION {{[width |-> w, height |-> h, x |-> x, data |-> RowDiff(x, w)] :
                              x \in Buffers(w * h)} :
                           w \in (0..MaxSmallWidth) \cup WideWidths, h \in 0..MaxRows}
    /\ fg = [op |-> "none", data |-> <<>>, scalar |-> <<>>]
    /\ byte_order = "LE" /\ is_big_tiff = FALSE /\ use_mmap = FALSE
    /\ cache_size = 1
    /\ max_tiles = TileCacheNew(cache_size)
    /\ cache = EmptyMap
    /\ lru = <<>>
    /\ thr = <<>>
    /\ pub = None
    /\ ops = 0
    /\ access_pattern = None
    /\ pool = "none"
    /\ next_worker = 0
    /\ wk = <<>>
    /\ shadow = <<>>

\* apply_horizontal_predictor(&mut data, width, height), as either build
\* compiles it
ApplyPredictorCall ==
    /\ fg.op = "none"
    /\ fg' = [op |-> "apply_horizontal_predictor",
              data |-> ApplyHorizontalPredictor(source.data, source.width, source.height),
              scalar |-> ApplyHorizontalPredictorScalar(source.data, source.width, source.height)]
    /\ UNCHANGED <<fileVars, cacheVars, threadVars, ops, access_pattern, pool, next_worker, wk, shadow>>

NextPredict == ApplyPredictorCall

SpecPredict == InitPredict /\ [][NextPredict]_vars

\* the sum of data[from..to]
RECURSIVE SumBytes(_, _, _)
SumBytes(data, from, to) ==
    IF from > to THEN 0 ELSE data[from] + SumBytes(data, from + 1, to)

\* C24: the predictor applied to the row-wise wrapping difference of x
\* returns x; each output byte is the sum modulo 256 of the input bytes of its
\* row up to its column; the vectorised and the scalar form agree.
C24_PredictorInverse ==
    fg.op = "apply_horizontal_predictor"
        => /\ fg.data = source.x
           /\ \A k \in 1..Len(source.data) :
                 fg.data[k] = SumBytes(source.data,
                                       k - ((k - 1) % source.width), k) % 256
           /\ fg.data = fg.scalar

\* two rows of 33 bytes went through two vector blocks and the tail each, the
\* first row ending in a byte other than 0
C24_Witness ==
    /\ fg.op = "apply_horizontal_predictor"
    /\ source.width > 2 * BlockLen
    /\ source.height >= 2
    /\ source.x[source.width] # 0
    /\ source.data # source.x
    /\ fg.data = source.x

----------------------------------------------------------------------------
(* SpecParallel: the reader of SpecReader with read_tile and the cached     *)
(* parallel read, TiffReader::read_tiles_parallel.                          *)

\* the loop of load_uncached_tiles_parallel over the results: put each Ok,
\* return at the first Err
RECURSIVE PutUntilError(_, _, _, _, _)
PutUntilError(c, max, ifd, ids, rs) ==
    IF ids = <<>> THEN [c |-> c, ret |-> Ok(<<>>)]
    ELSE IF ~IsOk(Head(rs)) THEN [c |-> c, ret |-> Head(rs)]
    ELSE PutUntilError(CachePut(c, max, CacheKey(ifd, Head(ids)), Head(rs)[2]),
                       max, ifd, Tail(ids), Tail(rs))

\* ParallelReader::collect_tiles_from_cache: cache.get of each requested
\* index in turn, stopping at the first that is not there
RECURSIVE CollectTilesFromCache(_, _, _, _)
CollectTilesFromCache(c, ifd, ids, tiles) ==
    IF ids = <<>> THEN [c |-> c, ret |-> Ok(tiles)]
    ELSE LET g == CacheGet(c, CacheKey(ifd, Head(ids)))
         IN  IF g.val = None THEN [c |-> g.c, ret |-> Err("InvalidFormat")]
             ELSE CollectTilesFromCache(g.c, ifd, Tail(ids), Append(tiles, g.val[1]))

\* ParallelReader::read_tiles_parallel: find_uncached_indices,
\* load_uncached_tiles_parallel, collect_tiles_from_cache
ReadTilesParallel(c, max, f, bo, mmap, ifd, tile_indices) ==
    LET uncached == FilterUncached(c, ifd, tile_indices)
        rs == [j \in 1..Len(uncached.ids) |-> LoadSingleTile(f, bo, mmap, ifd, uncached.ids[j])]
        loaded == PutUntilError(uncached.c, max, ifd, uncached.ids, rs)
    IN  IF \E j \in 1..Len(rs) : rs[j] = Panic THEN [c |-> uncached.c, ret |-> Panic]
        ELSE IF ~IsOk(loaded.ret) THEN loaded
        ELSE CollectTilesFromCache(loaded.c, ifd, tile_indices, <<>>)

\* the tile index lists of read_tiles_parallel
TileLists == UNION {[1..n -> TileIds] : n \in 1..MaxBatchLen}

\* TiffReader::read_tiles_parallel(ifd, tile_indices)
ReadTilesParallelCall(i, tile_indices) ==
    /\ ops < MaxReads
    /\ LET r == ReadTilesParallel(CacheOf(cache, lru), max_tiles, File, byte_order, use_mmap,
                                  Ifd(i), tile_indices)
       IN  /\ cache' = r.c.map
           /\ lru' = r.c.lru
           /\ fg' = [IdleFg EXCEPT !.op = "read_tiles_parallel", !.ifd = i,
                                   !.coords = tile_indices, !.ret = Some(r.ret)]
    /\ ops' = ops + 1
    /\ UNCHANGED <<cache_size, max_tiles, threadVars, fileVars, access_pattern, pool, next_worker, wk, shadow>>

NextParallel ==
    \/ \E i \in Ifds, t \in TileIds : ReadTileCall(i, t)
    \/ \E i \in Ifds, ids \in TileLists : ReadTilesParallelCall(i, ids)

SpecParallel == InitReader /\ [][NextParallel]_vars

\* every requested tile can be loaded and decoded
AllLoadable(i, tile_indices) ==
    \A j \in 1..Len(tile_indices) :
        IsOk(LoadSingleTile(File, byte_order, use_mmap, Ifd(i), tile_indices[j]))

\* C25: read_tiles_parallel returns Ok with one buffer per requested tile
\* index whenever every requested tile can be loaded and decoded, whatever
\* the cache capacity.
C25_ParallelReadOk ==
    (fg.op = "read_tiles_parallel" /\ AllLoadable(fg.ifd, fg.coords))
        => /\ fg.ret[1][1] = "ok"
           /\ Len(fg.ret[1][2]) = Len(fg.coords)

----------------------------------------------------------------------------
(* The tile ids of prefetch requests, under Spec.                           *)

\* C26: every tile id placed in a prefetch request is a tile id of the IFD
\* (below ceil(W/Tw) * ceil(H/Th)): no request the foreground builds, no
\* request queued for a worker, no tile a worker is loading and no result it
\* publishes carries an id the image does not have.
C26_PrefetchIdsValid ==
    /\ (fg.req # None)
        => \A j \in 1..Len(fg.req[1].tile_indices) : fg.req[1].tile_indices[j] \in TileIds
    /\ \A w \in DOMAIN wk :
          /\ \A q \in 1..Len(wk[w].queue) :
                \A j \in 1..Len(wk[w].queue[q].tile_indices) :
                    wk[w].queue[q].tile_indices[j] \in TileIds
          /\ \A j \in 1..Len(wk[w].cur) : wk[w].cur[j] \in TileIds
          /\ \A j \in 1..Len(wk[w].chan) : wk[w].chan[j].tile_index \in TileIds

----------------------------------------------------------------------------
(* SpecQuery: the two query paths of api::handlers on the pixel position a  *)
(* coordinate maps to.  Each opens its own reader with TiffReader::open and *)
(* reads the main IFD.  A position is kept in half pixels: the f64 values   *)
(* transform_crs_to_pixel returns are n / 2 for the integers n drawn here.  *)

\* TiffReader::open: open_with_options(path, true, 256)
DefaultCacheSize == 256

\* positions from one pixel before the raster to half a pixel past it
HalfPixelsX == (0 - 2)..(2 * ImageWidth + 1)
HalfPixelsY == (0 - 2)..(2 * ImageHeight + 1)
Positions == HalfPixelsX \X HalfPixelsY
PositionLists == UNION {[1..n -> Positions] : n \in 1..MaxBatchLen}

\* `f as u64` of the f64 value half / 2: towards zero, negative values to 0
AsU64(half) == IF half < 0 THEN 0 ELSE half \div 2

\* extract_single_value from transform_crs_to_pixel on: read_pixel_value at
\* the cast position, on the reader just opened
ExtractSingleValue(pos) ==
    ReadPixelPlain(CacheOf(EmptyMap, <<>>), TileCacheNew(DefaultCacheSize), File, byte_order,
                   use_mmap, Ifd(0), AsU64(pos[1]), AsU64(pos[2])).ret

\* the bounds filter of process_csv_batch_stream: the position is kept
InsideFilter(pos) ==
    /\ pos[1] >= 0 /\ pos[2] >= 0
    /\ pos[1] < 2 * Ifd(0).width /\ pos[2] < 2 * Ifd(0).height

\* process_csv_batch_stream from transform_crs_to_pixel_batch on: filter,
\* read_pixels_batch of the positions kept, one exposure_value per point;
\* tile_indices is the order in which the HashMap yields its keys
ProcessCsvBatchStream(positions, tile_indices) ==
    LET valid_indices == SelectSeq([j \in 1..Len(positions) |-> j],
                                   LAMBDA j : InsideFilter(positions[j]))
        valid_coords_only == [k \in 1..Len(valid_indices) |->
                                 <<AsU64(positions[valid_indices[k]][1]),
                                   AsU64(positions[valid_indices[k]][2])>>]
        valid_values == ReadPixelsBatch(CacheOf(EmptyMap, <<>>), TileCacheNew(DefaultCacheSize),
                                        File, byte_order, use_mmap, Ifd(0),
                                        valid_coords_only, tile_indices).ret
    IN  IF ~IsOk(valid_values) THEN valid_values
        ELSE Ok([j \in 1..Len(positions) |->
                    IF InsideFilter(positions[j])
                    THEN valid_values[2][CHOOSE k \in 1..Len(valid_indices) : valid_indices[k] = j]
                    ELSE "OUT_OF_BOUNDS"])

\* the tiles of the positions the filter keeps
KeptTiles(positions) ==
    {CalculateTileIndex(Ifd(0), AsU64(positions[j][1]), AsU64(positions[j][2])) :
        j \in {k \in 1..Len(positions) : InsideFilter(positions[k])}}

\* the server with the file on disk; the requests share no state, so a
\* behaviour handles one
InitQuery ==
    /\ byte_order = "LE" /\ is_big_tiff \in BOOLEAN /\ use_mmap = TRUE
    /\ source = [len |-> Len(WrittenFile)]
    /\ cache_size = DefaultCacheSize
    /\ max_tiles = TileCacheNew(cache_size)
    /\ cache = EmptyMap
    /\ lru = <<>>
    /\ thr = <<>>
    /\ pub = None
    /\ ops = 0
    /\ access_pattern = None
    /\ pool = "none"
    /\ next_worker = 0
    /\ wk = <<>>
    /\ fg = [op |-> "none", positions |-> <<>>, ret |-> None, expect |-> None]
    /\ shadow = <<>>

\* extract_single_value for a coordinate that maps to pos; expect is the
\* row process_csv_batch_stream writes for the same position
ExtractSingleValueCall(pos) ==
    /\ fg.op = "none"
    /\ fg' = [op |-> "extract_single_value", positions |-> <<pos>>,
              ret |-> Some(ExtractSingleValue(pos)),
              expect |-> Some(ProcessCsvBatchStream(<<pos>>,
                                  IF InsideFilter(pos)
                                  THEN <<CalculateTileIndex(Ifd(0), AsU64(pos[1]), AsU64(pos[2]))>>
                                  ELSE <<>>))]
    /\ UNCHANGED <<fileVars, cacheVars, threadVars, ops, access_pattern, pool, next_worker, wk, shadow>>

\* process_csv_batch_stream for points that map to positions
ProcessCsvBatchCall(positions) ==
    /\ fg.op = "none"
    /\ \E order \in KeyOrders(KeptTiles(positions)) :
          fg' = [op |-> "process_csv_batch_stream", positions |-> positions,
                 ret |-> Some(ProcessCsvBatchStream(positions, order)), expect |-> None]
    /\ UNCHANGED <<fileVars, cacheVars, threadVars, ops, access_pattern, pool, next_worker, wk, shadow>>

NextQuery ==
    \/ \E pos \in Positions : ExtractSingleValueCall(pos)
    \/ \E positions \in PositionLists : ProcessCsvBatchCall(positions)

SpecQuery == InitQuery /\ [][NextQuery]_vars

\* the position lies outside [0, W) x [0, H)
OutsideRaster(pos) ==
    \/ pos[1] < 0 \/ pos[2] < 0
    \/ pos[1] >= 2 * ImageWidth \/ pos[2] >= 2 * ImageHeight

\* C28: for a position outside [0,W) x [0,H), negative positions included,
\* extract_single_value returns an error and never a pixel value, exactly
\* for the positions the CSV batch path reports as OUT_OF_BOUNDS.
C28_OutsideAgree ==
    fg.op = "extract_single_value"
        => LET pos == fg.positions[1]
           IN  /\ OutsideRaster(pos) => fg.ret[1][1] = "err"
               /\ (IsOk(fg.expect[1]) /\ fg.expect[1][2][1] = "OUT_OF_BOUNDS") => fg.ret[1][1] = "err"

\* ---------------------------------------------------------------------
\* SpecBuffer: BufferedReader over a std::io::Cursor (io/buffer.rs)
\* ---------------------------------------------------------------------

MaxCapacity == 3
MaxReadLen == 3
MaxPosition == 6

\* the bytes of the wrapped source, as in the tests of io/traits.rs
BufferFile == <<16, 32, 48, 64>>

SeekFroms ==
    [kind : {"Start"}, n : 0..MaxPosition]
        \cup [kind : {"End", "Current"}, n : (0 - MaxPosition)..2]

\* Cursor::read: copies what is left of the data from position on, at most n bytes
CursorRead(data, position, n) ==
    LET start == Min(position, Len(data))
        count == Min(n, Len(data) - start)
    IN  [bytes |-> SubSeq(data, start + 1, start + count),
         position |-> position + count]

\* Cursor::seek: Start sets the position, End and Current add to the
\* length and to the position; a negative result is an error and moves nothing
CursorSeek(data, position, from) ==
    LET target == CASE from.kind = "Start" -> from.n
                    [] from.kind = "End" -> Len(data) + from.n
                    [] OTHER -> position + from.n
    IN  IF target < 0
        THEN [ret |-> Err("InvalidInput"), position |-> position]
        ELSE [ret |-> Ok(target), position |-> target]

\* BufferedReader::with_capacity
WithCapacity(capacity) ==
    [inner |-> 0, buffer |-> [j \in 1..capacity |-> 0],
     pos |-> 0, cap |-> 0, buffer_size |-> capacity]

\* BufferedReader::fill_buffer
FillBuffer(data, rd) ==
    LET r == CursorRead(data, rd.inner, Len(rd.buffer))
    IN  [rd EXCEPT !.inner = r.position,
                   !.buffer = r.bytes \o SubSeq(rd.buffer, Len(r.bytes) + 1, Len(rd.buffer)),
                   !.cap = Len(r.bytes),
                   !.pos = 0]

\* the tail of BufferedReader::read: copy out of the buffer
CopyFromBuffer(rd, n) ==
    LET available == rd.cap - rd.pos
        to_read == Min(available, n)
    IN  [ret |-> Ok(SubSeq(rd.buffer, rd.pos + 1, rd.pos + to_read)),
         rd |-> [rd EXCEPT !.pos = rd.pos + to_read]]

\* <BufferedReader as Read>::read with a destination of n bytes
BufferedRead(data, rd, n) ==
    IF rd.pos >= rd.cap
    THEN IF n >= rd.buffer_size
         THEN LET r == CursorRead(data, rd.inner, n)
              IN  [ret |-> Ok(r.bytes), rd |-> [rd EXCEPT !.inner = r.position]]
         ELSE LET filled == FillBuffer(data, rd)
              IN  IF filled.cap = 0
                  THEN [ret |-> Ok(<<>>), rd |-> filled]
                  ELSE CopyFromBuffer(filled, n)
    ELSE CopyFromBuffer(rd, n)

\* <BufferedReader as Seek>::seek
BufferedSeek(data, rd, from) ==
    LET r == CursorSeek(data, rd.inner, from)
    IN  [ret |-> r.ret,
         rd |-> [rd EXCEPT !.pos = 0, !.cap = 0, !.inner = r.position]]

\* a BufferedReader of any capacity over the source; shadow is the same
\* source read without buffering
InitBuffer ==
    /\ byte_order = "LE" /\ is_big_tiff = FALSE /\ use_mmap = FALSE
    /\ source = [data |-> BufferFile]
    /\ cache_size = 1
    /\ max_tiles = 1
    /\ cache = EmptyMap
    /\ lru = <<>>
    /\ thr = <<>>
    /\ pub = None
    /\ ops = 0
    /\ access_pattern = None
    /\ pool = "none"
    /\ next_worker = 0
    /\ wk = <<>>
    /\ \E capacity \in 0..MaxCapacity :
          fg = [op |-> "none", arg |-> None, ret |-> None, rd |-> WithCapacity(capacity)]
    /\ shadow = [position |-> 0, ret |-> None]

\* reader.read(&mut buf) with buf.len() = n, and the same call on the source
ReadCall(n) ==
    /\ LET b == BufferedRead(source.data, fg.rd, n)
           u == CursorRead(source.data, shadow.position, n)
       IN  /\ fg' = [op |-> "read", arg |-> Some(n), ret |-> Some(b.ret), rd |-> b.rd]
           /\ shadow' = [position |-> u.position, ret |-> Some(Ok(u.bytes))]
    /\ UNCHANGED <<fileVars, cacheVars, threadVars, ops, access_pattern, pool, next_worker, wk>>

\* reader.seek(from), and the same call on the source
SeekCall(from) ==
    /\ LET b == BufferedSeek(source.data, fg.rd, from)
           u == CursorSeek(source.data, shadow.position, from)
       IN  /\ b.rd.inner <= MaxPosition
           /\ u.position <= MaxPosition
           /\ fg' = [op |-> "seek", arg |-> Some(from), ret |-> Some(b.ret), rd |-> b.rd]
           /\ shadow' = [position |-> u.position, ret |-> Some(u.ret)]
    /\ UNCHANGED <<fileVars, cacheVars, threadVars, ops, access_pattern, pool, next_worker, wk>>

NextBuffer ==
    \/ \E n \in 0..MaxReadLen : ReadCall(n)
    \/ \E from \in SeekFroms : SeekCall(from)

SpecBuffer == InitBuffer /\ [][NextBuffer]_vars

\* pos <= cap <= buffer_size
BufferBounds ==
    /\ fg.rd.pos <= fg.rd.cap
    /\ fg.rd.cap <= fg.rd.buffer_size

\* every seek returns what the same seek returns on the source
SeeksAgree == fg.op = "seek" => fg.ret = shadow.ret

\* every read returns the bytes the same read returns on the source
ReadsAgree == fg.op = "read" => fg.ret = shadow.ret

\* C29: for any sequence of read and seek calls (Start, End, Current) and
\* any buffer capacity, each read returns the same bytes and each seek the
\* same position as the same call on the source without buffering, and
\* pos <= cap <= buffer_size in every reachable state.
C29_BufferedEquivalent ==
    /\ SeeksAgree
    /\ ReadsAgree
    /\ BufferBounds

\* ---------------------------------------------------------------------
\* Cache / queue consistency (cache.rs), over SpecCache
\* ---------------------------------------------------------------------

\* key k occurs at least once in the eviction queue
InQueue(k) == \E i \in 1..Len(lru) : lru[i] = k

\* C30: in every state in which no put is in progress, here with every put,
\* get and clear call of every thread completed, each key present in the
\* cache map occurs at least once in the eviction queue.
C30_QueueCoversMap ==
    AllFinished => \A k \in DOMAIN cache : InQueue(k)

====
